---- MODULE Spec2Model ----
(***************************************************************************)
(* astra-tools: citation-key regeneration (bib/regenerate_keys.py), the    *)
(* Quarto and Markdown converters (converters/json_to_qmd.py,              *)
(* converters/json_to_md.py) and the command line (cli.py).                *)
(*                                                                         *)
(* Python strings are TLA+ strings; a character is a string of length 1.   *)
(* The regular expressions of the source are written out as the scans the  *)
(* regex engine performs (leftmost match, greedy quantifiers).  The model  *)
(* covers ASCII text.                                                      *)
(***************************************************************************)
EXTENDS Integers, Sequences, FiniteSets, TLC

VARIABLES
    \* generate_citation_key: its argument, its three locals, its result
    k_fields, k_author, k_year, k_title, k_key, k_pc,
    \* regenerate_bib_keys: its argument, its locals (entries, the index of
    \* the entry the for loop is at, new_content, key_mapping) and, in b_log,
    \* the locals of every iteration done; b_pass counts the calls, the
    \* second one being made on the content the first one returned
    bib_content, entries, b_i, new_content, key_mapping, b_log, b_pc, b_pass,
    \* json_to_qmd: the text of the bibliography file, the
    \* mapping extract_citation_mapping_from_bib returns, the text given to
    \* convert_inline_citations (with the paperTitle of its tag) and the
    \* text it returns; the sections of the document, whose one citation has
    \* the marker's display text as its id, and the table
    \* build_bib_entries_summary returns for them
    c_bib, citation_mapping, c_marker, c_text, c_out, c_pc, c_sections, c_summary,
    \* convert_model_tags: the converter it belongs to ("qmd", "md"), the
    \* text given and the results of the successive applications
    s_conv, s_text, s_out,
    \* cli.main: the files as they are without what the command wrote and as
    \* they are now, the parsed arguments, the terminal (whether stdin is
    \* one, the line typed at a prompt), what was printed, original_content
    \* of cmd_regenerate_bib, the command's position, the exit status; in
    \* fault, the file whose open(path, 'w') or write raises OSError in this
    \* run; in dir_order, the order in which the directory lists its files;
    \* bib_file of cmd_json_to_qmd
    fs0, fs, args, stdin_isatty, stdin_line, stdout, original_content, cli_pc, cli_ret,
    fault, dir_order, cli_bib_file

key_vars == << k_fields, k_author, k_year, k_title, k_key, k_pc >>
bib_vars == << bib_content, entries, b_i, new_content, key_mapping, b_log, b_pc, b_pass >>
cite_vars == << c_bib, citation_mapping, c_marker, c_text, c_out, c_pc, c_sections, c_summary >>
strip_vars == << s_conv, s_text, s_out >>
cli_vars == << fs0, fs, args, stdin_isatty, stdin_line, stdout, original_content,
              cli_pc, cli_ret, fault, dir_order, cli_bib_file >>
vars == << key_vars, bib_vars, cite_vars, strip_vars, cli_vars >>

----------------------------------------------------------------------------
(* Characters and the str methods the source uses.                         *)

LowerLetters == "abcdefghijklmnopqrstuvwxyz"
UpperLetters == "ABCDEFGHIJKLMNOPQRSTUVWXYZ"
DigitChars == {"0", "1", "2", "3", "4", "5", "6", "7", "8", "9"}
OctDigitChars == {"0", "1", "2", "3", "4", "5", "6", "7"}
\* chr(11) and chr(28)..chr(31), written as the characters themselves
Chr11 == ""
Chr28To31 == {"", "", "", ""}
WhiteChars == {" ", "\t", "\n", "\r", "\f", Chr11} \cup Chr28To31

\* the character at the 1-based position i, "" outside the string
Ch(s, i) == IF 1 <= i /\ i <= Len(s) THEN SubSeq(s, i, i) ELSE ""

LowerSet == {Ch(LowerLetters, i) : i \in 1..Len(LowerLetters)}
UpperSet == {Ch(UpperLetters, i) : i \in 1..Len(UpperLetters)}
AlphaChars == LowerSet \cup UpperSet
\* \w of the re module, on ASCII
WordChars == AlphaChars \cup DigitChars \cup {"_"}

LetterIndex(c, letters) == CHOOSE i \in 1..Len(letters) : Ch(letters, i) = c

lower_char(c) == IF c \in UpperSet THEN Ch(LowerLetters, LetterIndex(c, UpperLetters)) ELSE c
upper_char(c) == IF c \in LowerSet THEN Ch(UpperLetters, LetterIndex(c, LowerLetters)) ELSE c

RECURSIVE lower(_)
lower(s) == IF s = "" THEN "" ELSE lower_char(Head(s)) \o lower(Tail(s))

RECURSIVE upper(_)
upper(s) == IF s = "" THEN "" ELSE upper_char(Head(s)) \o upper(Tail(s))

\* str.capitalize(): first character upper-cased, every other one lower-cased
capitalize_first_only(s) == IF s = "" THEN "" ELSE upper_char(Head(s)) \o Tail(s)
capitalize(s) == IF s = "" THEN "" ELSE upper_char(Head(s)) \o lower(Tail(s))

RECURSIVE lstrip_chars(_, _)
lstrip_chars(s, chars) ==
    IF s # "" /\ Head(s) \in chars THEN lstrip_chars(Tail(s), chars) ELSE s

RECURSIVE rstrip_chars(_, _)
rstrip_chars(s, chars) ==
    IF s # "" /\ Ch(s, Len(s)) \in chars
    THEN rstrip_chars(SubSeq(s, 1, Len(s) - 1), chars)
    ELSE s

\* str.strip(chars) and str.strip()
strip_chars(s, chars) == rstrip_chars(lstrip_chars(s, chars), chars)
strip(s) == strip_chars(s, WhiteChars)

\* re.sub(r'[<chars>]', '', s)
RECURSIVE remove_chars(_, _)
remove_chars(s, chars) ==
    IF s = "" THEN ""
    ELSE (IF Head(s) \in chars THEN "" ELSE Head(s)) \o remove_chars(Tail(s), chars)

\* re.sub(r'[^<chars>]', '', s)
RECURSIVE keep_chars(_, _)
keep_chars(s, chars) ==
    IF s = "" THEN ""
    ELSE (IF Head(s) \in chars THEN Head(s) ELSE "") \o keep_chars(Tail(s), chars)

\* s.startswith(lit, i - 1) for the 1-based position i
starts_at(s, i, lit) == i >= 1 /\ i + Len(lit) - 1 <= Len(s) /\ SubSeq(s, i, i + Len(lit) - 1) = lit

\* the position after the run of characters of chars that starts at i
run_end(s, i, chars) ==
    IF i > Len(s) THEN i
    ELSE CHOOSE j \in i..(Len(s) + 1) :
            /\ j = Len(s) + 1 \/ Ch(s, j) \notin chars
            /\ \A k \in i..(j - 1) : Ch(s, k) \in chars

\* the position after the run of characters outside chars that starts at i
run_end_not(s, i, chars) ==
    IF i > Len(s) THEN i
    ELSE CHOOSE j \in i..(Len(s) + 1) :
            /\ j = Len(s) + 1 \/ Ch(s, j) \in chars
            /\ \A k \in i..(j - 1) : Ch(s, k) \notin chars

\* s.find(c, i - 1) + 1, or 0
find_char(s, i, c) ==
    IF \E j \in i..Len(s) : Ch(s, j) = c
    THEN CHOOSE j \in i..Len(s) : Ch(s, j) = c /\ \A k \in i..(j - 1) : Ch(s, k) # c
    ELSE 0

RECURSIVE concat(_)
concat(ss) == IF ss = << >> THEN "" ELSE Head(ss) \o concat(Tail(ss))

\* str.split(): the maximal runs of non-whitespace, in order
RECURSIVE split_ws_from(_, _)
split_ws_from(s, i) ==
    LET b == run_end(s, i, WhiteChars)
        e == run_end_not(s, b, WhiteChars)
    IN IF b > Len(s) THEN << >> ELSE << SubSeq(s, b, e - 1) >> \o split_ws_from(s, e)

split_ws(s) == split_ws_from(s, 1)

----------------------------------------------------------------------------
(* bib/regenerate_keys.py: the key generator.                              *)

SKIP_WORDS == {
    "a", "an", "the", "and", "or", "but", "in", "on", "at", "to", "for",
    "of", "with", "by", "from", "as", "is", "was", "are", "were", "been",
    "be", "have", "has", "had", "do", "does", "did", "will", "would",
    "should", "could", "may", "might", "must", "can", "using", "via",
    "through", "into", "onto", "upon", "about", "over", "under", "between",
    "among", "during", "before", "after", "above", "below", "this", "that",
    "these", "those", "our", "their", "its", "his", "her" }

\* the split without re.IGNORECASE
and_matches_at_cased(s, i) ==
    LET e == run_end(s, i, WhiteChars)
    IN e > i /\ e + 3 <= Len(s) /\ SubSeq(s, e, e + 2) = "and" /\ Ch(s, e + 3) \in WhiteChars

RECURSIVE first_author_from_cased(_, _)
first_author_from_cased(s, i) ==
    IF i > Len(s) THEN s
    ELSE IF and_matches_at_cased(s, i) THEN SubSeq(s, 1, i - 1)
    ELSE first_author_from_cased(s, i + 1)

split_and_first_cased(s) == first_author_from_cased(s, 1)

\* whether r'\s+and\s+' (IGNORECASE) matches at i; i is on whitespace
and_matches_at(s, i) ==
    LET e == run_end(s, i, WhiteChars)
    IN /\ e > i
       /\ e + 3 <= Len(s)
       /\ lower(SubSeq(s, e, e + 2)) = "and"
       /\ Ch(s, e + 3) \in WhiteChars

\* re.split(r'\s+and\s+', s, flags=re.IGNORECASE)[0]
RECURSIVE first_author_from(_, _)
first_author_from(s, i) ==
    IF i > Len(s) THEN s
    ELSE IF and_matches_at(s, i) THEN SubSeq(s, 1, i - 1)
    ELSE first_author_from(s, i + 1)

split_and_first(s) == first_author_from(s, 1)

\* s.split(',')[0]
before_first_comma(s) ==
    LET c == find_char(s, 1, ",") IN IF c = 0 THEN s ELSE SubSeq(s, 1, c - 1)

has_comma(s) == find_char(s, 1, ",") # 0

\* lines 29-33: the first author, braces removed
first_author_of(author_field) ==
    strip(split_and_first(strip(remove_chars(author_field, {"{", "}"}))))

\* line 43 raises IndexError when the first author holds no token
extract_author_lastname_raises(author_field) ==
    /\ author_field # ""
    /\ ~has_comma(first_author_of(author_field))
    /\ split_ws(first_author_of(author_field)) = << >>

\* str.capitalize() as lines 47, 78 and 84 call it
capitalize_word(s) == capitalize(s)

\* lines 37-46: the last name before it is capitalized
lastname_of(author_field) ==
    LET first_author == first_author_of(author_field)
        lastname == IF has_comma(first_author)
                    THEN strip(before_first_comma(first_author))
                    ELSE LET parts == split_ws(first_author)
                         IN strip(parts[Len(parts)])
    IN keep_chars(lastname, WordChars)

extract_author_lastname(author_field) ==
    IF author_field = "" THEN "Unknown"
    ELSE capitalize_word(lastname_of(author_field))

\* re.search(r'\d{4}', s): the 1-based start of the leftmost match, or 0
RECURSIVE search_4digits(_, _)
search_4digits(s, i) ==
    IF i + 3 > Len(s) THEN 0
    ELSE IF \A j \in i..(i + 3) : Ch(s, j) \in DigitChars THEN i
    ELSE search_4digits(s, i + 1)

extract_year(year_field) ==
    IF year_field = "" THEN "NoYear"
    ELSE LET m == search_4digits(year_field, 1)
         IN IF m # 0 THEN SubSeq(year_field, m, m + 3) ELSE "NoYear"

\* re.findall(r'\b[a-zA-Z]+\b', s): the maximal alphabetic runs that no word
\* character (digit, underscore) touches
RECURSIVE findall_alpha_from(_, _)
findall_alpha_from(s, i) ==
    IF i > Len(s) THEN << >>
    ELSE IF Ch(s, i) \in WordChars
    THEN LET e == run_end(s, i, WordChars)
             w == SubSeq(s, i, e - 1)
         IN (IF keep_chars(w, AlphaChars) = w THEN << w >> ELSE << >>)
            \o findall_alpha_from(s, e)
    ELSE findall_alpha_from(s, i + 1)

findall_alpha(s) == findall_alpha_from(s, 1)

is_substantial(word) == Len(word) > 2 /\ lower(word) \notin SKIP_WORDS

RECURSIVE select_substantial(_)
select_substantial(words) ==
    IF words = << >> THEN << >>
    ELSE (IF is_substantial(Head(words)) THEN << Head(words) >> ELSE << >>)
         \o select_substantial(Tail(words))

take(seq, n) == SubSeq(seq, 1, IF Len(seq) < n THEN Len(seq) ELSE n)

RECURSIVE capitalize_each(_)
capitalize_each(words) ==
    IF words = << >> THEN << >>
    ELSE << capitalize_word(Head(words)) >> \o capitalize_each(Tail(words))

\* the fallback as "fewer than n_words substantial words" would have it
title_words_used_below_n(words, n_words) ==
    LET substantial_words == take(select_substantial(words), n_words)
    IN IF Len(substantial_words) < n_words THEN take(words, n_words) ELSE substantial_words

\* lines 75-84: the words that make the title component
title_words_used(words, n_words) ==
    LET substantial_words == take(select_substantial(words), n_words)
    IN IF substantial_words = << >> THEN take(words, n_words) ELSE substantial_words

\* lines 69-72
title_tokens(title_field) == findall_alpha(remove_chars(title_field, {"{", "}", "\"", "'"}))

extract_title_words(title_field, n_words) ==
    IF title_field = "" THEN "NoTitle"
    \* line 69 also removes the backquote, which no text of the model holds
    ELSE concat(capitalize_each(title_words_used(title_tokens(title_field), n_words)))

\* n_words' default (line 63)
N_WORDS == 3

\* dict.get(name, '')
get(fields, name) == IF name \in DOMAIN fields THEN fields[name] ELSE ""

generate_citation_key_raises(fields) == extract_author_lastname_raises(get(fields, "author"))

\* the key made of a fourth field as well
generate_citation_key_with_note(fields) ==
    extract_author_lastname(get(fields, "author"))
        \o extract_year(get(fields, "year"))
        \o extract_title_words(get(fields, "title"), N_WORDS)
        \o extract_title_words(get(fields, "note"), N_WORDS)

\* lines 89-95; entry_type is not read
generate_citation_key(fields) ==
    extract_author_lastname(get(fields, "author"))
        \o extract_year(get(fields, "year"))
        \o extract_title_words(get(fields, "title"), N_WORDS)

----------------------------------------------------------------------------
(* bib/regenerate_keys.py: parse_bib_entry and regenerate_bib_keys.        *)

\* whether r'@\w+\s*\{' matches at i
header_matches_at(s, i) ==
    /\ i <= Len(s) /\ Ch(s, i) = "@"
    /\ run_end(s, i + 1, WordChars) > i + 1
    /\ Ch(s, run_end(s, run_end(s, i + 1, WordChars), WhiteChars)) = "{"

\* the position of the "{" that ends the match of r'@\w+\s*\{' at i
header_brace(s, i) == run_end(s, run_end(s, i + 1, WordChars), WhiteChars)

\* re.split(r'(?=@\w+\s*\{)', s): the text is cut before every match
re_split_entries(s) ==
    LET cuts == {i \in 1..Len(s) : header_matches_at(s, i)}
        cut(n) == CHOOSE c \in cuts : Cardinality({d \in cuts : d < c}) = n - 1
        pieces == Cardinality(cuts) + 1
    IN [n \in 1..pieces |->
            SubSeq(s, IF n = 1 THEN 1 ELSE cut(n - 1),
                      IF n = pieces THEN Len(s) ELSE cut(n) - 1)]

\* line 101: whether r'@(\w+)\s*\{\s*([^,]+)\s*,' matches at the start
parse_matches(entry_text) ==
    /\ header_matches_at(entry_text, 1)
    /\ find_char(entry_text, header_brace(entry_text, 1) + 1, ",")
            > header_brace(entry_text, 1) + 1

\* lines 105-106
entry_type_of(entry_text) == SubSeq(entry_text, 2, run_end(entry_text, 2, WordChars) - 1)
old_key_of(entry_text) ==
    LET b == header_brace(entry_text, 1)
    IN strip(SubSeq(entry_text, b + 1, find_char(entry_text, b + 1, ",") - 1))

\* r'(\w+)\s*=\s*[{"]([^}"]*)["}\s]*' tried at i, which is on a word
\* character: << matched, name, value, position after the match >>
field_match_at(s, i) ==
    LET name_end == run_end(s, i, WordChars)
        eq == run_end(s, name_end, WhiteChars)
        open == run_end(s, eq + 1, WhiteChars)
        value_end == run_end_not(s, open + 1, {"}", "\""})
    IN IF /\ eq <= Len(s) /\ Ch(s, eq) = "="
          /\ open <= Len(s) /\ Ch(s, open) \in {"{", "\""}
       THEN << TRUE, SubSeq(s, i, name_end - 1), SubSeq(s, open + 1, value_end - 1),
               run_end(s, value_end, {"\"", "}"} \cup WhiteChars) >>
       ELSE << FALSE, "", "", i + 1 >>

put(dict, k, v) == [x \in DOMAIN dict \cup {k} |-> IF x = k THEN v ELSE dict[x]]

\* lines 109-114: re.finditer over the entry, later fields overwrite
\* (a match that fails at the start of a word fails inside the word too)
RECURSIVE fields_from(_, _, _)
fields_from(s, i, fields) ==
    LET w == run_end_not(s, i, WordChars)
        m == field_match_at(s, w)
    IN IF w > Len(s) THEN fields
       ELSE IF m[1] THEN fields_from(s, m[4], put(fields, lower(m[2]), m[3]))
       ELSE fields_from(s, run_end(s, w, WordChars), fields)

NoField == [name \in {} |-> ""]

parse_fields(entry_text) == fields_from(entry_text, 1, NoField)

\* str(n) of a natural number
RECURSIVE str_nat(_)
str_nat(n) == IF n < 10 THEN Ch("0123456789", n + 1) ELSE str_nat(n \div 10) \o Ch("0123456789", (n % 10) + 1)

values(dict) == {dict[k] : k \in DOMAIN dict}

\* lines 158-162: the while loop, entered with suffix
RECURSIVE next_free_key(_, _, _, _)
next_free_key(new_key, base_key, suffix, taken) ==
    IF new_key \in taken
    THEN next_free_key(base_key \o "_" \o str_nat(suffix), base_key, suffix + 1, taken)
    ELSE new_key

unique_key(base_key, key_map) == next_free_key(base_key, base_key, 1, values(key_map))

\* the grave accent chr(96) has no TLA+ literal: it is written as Python
\* escapes it
Grave == "\\x60"

\* chr(127)
Chr127 == ""

\* chr(n) for n in 64 .. 127, what the octal escapes \100 .. \177 stand for
Chr64To95 == "@ABCDEFGHIJKLMNOPQRSTUVWXYZ[\\]^_"
Chr97To126 == "abcdefghijklmnopqrstuvwxyz{|}~"
chr(n) ==
    IF n <= 95 THEN Ch(Chr64To95, n - 63)
    ELSE IF n = 96 THEN Grave
    ELSE IF n = 127 THEN Chr127
    ELSE Ch(Chr97To126, n - 96)

octal_value(c) == CHOOSE n \in 0..7 : Ch("01234567", n + 1) = c

\* the template r'\1' + new_key of line 170 as re's template parser reads
\* it: a digit after \1 extends the group number, two octal digits after it
\* make the octal escape \1dd
template_raises(new_key) ==
    /\ new_key # "" /\ Head(new_key) \in DigitChars
    /\ ~(Head(new_key) \in OctDigitChars /\ Len(new_key) >= 2 /\ Ch(new_key, 2) \in OctDigitChars)

template_is_octal(new_key) ==
    /\ Len(new_key) >= 2
    /\ Head(new_key) \in OctDigitChars /\ Ch(new_key, 2) \in OctDigitChars

\* lines 168-172: re.sub rewrites the one header of the entry
rewrite_entry(full_text, old_key, new_key) ==
    LET b == header_brace(full_text, 1)
        key_at == run_end(full_text, b + 1, WhiteChars)
        rest == SubSeq(full_text, key_at + Len(old_key), Len(full_text))
    IN IF template_is_octal(new_key)
       THEN chr(64 + 8 * octal_value(Ch(new_key, 1)) + octal_value(Ch(new_key, 2)))
                \o SubSeq(new_key, 3, Len(new_key)) \o rest
       ELSE SubSeq(full_text, 1, key_at - 1) \o new_key \o rest

----------------------------------------------------------------------------
(* generate_citation_key on the fields of one entry.                       *)

MaxAuthors == 2
MaxTitleWords == 4

Persons == {"Yancosek, Amy", "John McDonald", "O'Neil", "{van Dam}, A.", "Sandy Land"}
Conjunctions == {" and ", "\nAND  "}
\* author fields that name no first author, or no last name
OddAuthors ==
    {"", " ", "{ }", ",", " and Li", "Li and", "3m, Inc",
     Chr11 \o "Li", "Wu" \o Chr11 \o "and" \o Chr11 \o "Li, X"}

RECURSIVE AuthorLists(_)
AuthorLists(n) ==
    IF n = 1 THEN Persons
    ELSE AuthorLists(n - 1)
         \cup {a \o c \o p : a \in AuthorLists(n - 1), c \in Conjunctions, p \in Persons}

AuthorFields == AuthorLists(MaxAuthors) \cup OddAuthors

TitleWords == {"To", "be", "The", "Deep", "DNA", "go"}
OddTitles ==
    {"", "A Beacon: Bayesian Evolutionary Study", "x2 a_b Cat", "{Deep} \"Nets\" o'f", "12 34",
     "Deep" \o Chr11 \o "Nets"}

RECURSIVE WordLists(_)
WordLists(n) ==
    IF n = 0 THEN {""}
    ELSE WordLists(n - 1)
         \cup {(IF t = "" THEN w ELSE t \o " " \o w) : t \in WordLists(n - 1), w \in TitleWords}

TitleFields == WordLists(MaxTitleWords) \cup OddTitles
YearFields == {"", "2024", "c. 1999-2000", "n.d. 123"}

FieldMaps(name, vals) == {NoField} \cup {[n \in {name} |-> v] : v \in vals}

\* every author with one year and title, and every title with every year
KeyInputs ==
    {a @@ [year |-> "2024", title |-> "A Beacon: Bayesian Evolutionary Study"]
        : a \in FieldMaps("author", AuthorFields)}
    \cup {[author |-> "Yancosek, Amy"] @@ y @@ t
        : y \in FieldMaps("year", YearFields), t \in FieldMaps("title", TitleFields)}

KeyIdle ==
    /\ k_fields = NoField /\ k_author = "" /\ k_year = "" /\ k_title = ""
    /\ k_key = "" /\ k_pc = "idle"

BibIdle ==
    /\ bib_content = "" /\ entries = << >> /\ b_i = 0 /\ new_content = ""
    /\ key_mapping = NoField /\ b_log = << >> /\ b_pc = "idle" /\ b_pass = 0

CiteIdle ==
    /\ c_bib = "" /\ citation_mapping = NoField
    /\ c_marker = "" /\ c_text = "" /\ c_out = "" /\ c_pc = "idle"
    /\ c_sections = << >> /\ c_summary = ""

StripIdle ==
    /\ s_conv = "" /\ s_text = "" /\ s_out = << >>

\* no write fails
NoFault == [path |-> "", at |-> "", written |-> 0]

CliIdle ==
    /\ fs0 = NoField /\ fs = NoField /\ args = NoField /\ fault = NoFault
    /\ dir_order = << >> /\ cli_bib_file = ""
    /\ stdin_isatty = FALSE /\ stdin_line = "" /\ stdout = << >>
    /\ original_content = "" /\ cli_pc = "idle" /\ cli_ret = 0

InitKey ==
    /\ BibIdle /\ CiteIdle /\ StripIdle /\ CliIdle
    /\ k_fields \in KeyInputs
    /\ k_author = "" /\ k_year = "" /\ k_title = "" /\ k_key = ""
    /\ k_pc = "call"

\* lines 89-95
GenerateCitationKey ==
    /\ k_pc = "call"
    /\ IF generate_citation_key_raises(k_fields)
       THEN /\ k_pc' = "raised"
            /\ UNCHANGED << k_author, k_year, k_title, k_key >>
       ELSE /\ k_author' = extract_author_lastname(get(k_fields, "author"))
            /\ k_year' = extract_year(get(k_fields, "year"))
            /\ k_title' = extract_title_words(get(k_fields, "title"), N_WORDS)
            /\ k_key' = generate_citation_key(k_fields)
            /\ k_pc' = "return"
    /\ UNCHANGED << k_fields, bib_vars, cite_vars, strip_vars, cli_vars >>

NextKey == GenerateCitationKey

SpecKey == InitKey /\ [][NextKey]_vars

----------------------------------------------------------------------------
(* regenerate_bib_keys on a bibliography text.                             *)

MaxFrags == 3

Fragments == {
    "@a{k1,author={Li},year={2020},title={Deep}}\n",
    "@b{k2,\n author = \"Li\",\n YEAR = {2020},\n title = {Deep}\n}\n\n",
    "@a{k1,author={Wu, X},year={1999}}\n",
    " % note \n",
    "@string{x = y}\n",
    "@x{ ,author={,},year={2020}}\n",
    "@a{k3,author={ },year={1999}}",
    "@a{k4, author={,}, year={1999}}\n",
    "@misc{k5,author={Li},year={2020},title={Deep},note={Wu 1999}}\n",
    "@misc{author={Li}, year={2020}}\n",
    "@a" \o Chr11 \o "{k6,author={Li" \o Chr11 \o "},year={2020}}" \o Chr11,
    "@a{k7,author={40},year={2020}}\n" }

RECURSIVE BibTexts(_)
BibTexts(n) ==
    IF n = 0 THEN {""}
    ELSE BibTexts(n - 1) \cup {t \o f : t \in BibTexts(n - 1), f \in Fragments}

InitBib ==
    /\ KeyIdle /\ CiteIdle /\ StripIdle /\ CliIdle
    /\ bib_content \in BibTexts(MaxFrags)
    /\ entries = << >> /\ b_i = 0 /\ new_content = ""
    /\ key_mapping = NoField /\ b_log = << >> /\ b_pc = "call" /\ b_pass = 1

\* line 135
SplitEntries ==
    /\ b_pc = "call"
    /\ entries' = re_split_entries(bib_content)
    /\ b_i' = 1
    /\ b_pc' = "loop"
    /\ UNCHANGED << b_pass, bib_content, new_content, key_mapping, b_log, key_vars, cite_vars, strip_vars, cli_vars >>

\* line 141
entry == strip(entries[b_i])

Iteration(kind, old_key, base_key, new_key, out) ==
    [raw |-> entries[b_i], kind |-> kind, old_key |-> old_key,
     base_key |-> base_key, new_key |-> new_key, out |-> out]

\* lines 142-146: the preamble, or a fragment that is no entry, is kept
KeepPreamble ==
    /\ b_pc = "loop" /\ b_i <= Len(entries)
    /\ ~(entry # "" /\ starts_at(entry, 1, "@"))
    /\ new_content' = IF entry # "" THEN new_content \o entry \o "\n\n" ELSE new_content
    /\ b_log' = Append(b_log, Iteration("preamble", "", "", "",
                                        IF entry # "" THEN entry \o "\n\n" ELSE ""))
    /\ b_i' = b_i + 1
    /\ UNCHANGED << b_pass, bib_content, entries, key_mapping, b_pc, key_vars, cite_vars, strip_vars, cli_vars >>

\* the entry kept as the split left it, not stripped
KeepUnparseableRaw ==
    /\ b_pc = "loop" /\ b_i <= Len(entries)
    /\ entry # "" /\ starts_at(entry, 1, "@")
    /\ ~parse_matches(entry)
    /\ new_content' = new_content \o entries[b_i] \o "\n\n"
    /\ b_log' = Append(b_log, Iteration("unparseable", "", "", "", entries[b_i] \o "\n\n"))
    /\ b_i' = b_i + 1
    /\ UNCHANGED << b_pass, bib_content, entries, key_mapping, b_pc, key_vars, cite_vars, strip_vars, cli_vars >>

\* lines 148-152: an entry parse_bib_entry returns None for is kept
KeepUnparseable ==
    /\ b_pc = "loop" /\ b_i <= Len(entries)
    /\ entry # "" /\ starts_at(entry, 1, "@")
    /\ ~parse_matches(entry)
    /\ new_content' = new_content \o entry \o "\n\n"
    /\ b_log' = Append(b_log, Iteration("unparseable", "", "", "", entry \o "\n\n"))
    /\ b_i' = b_i + 1
    /\ UNCHANGED << b_pass, bib_content, entries, key_mapping, b_pc, key_vars, cite_vars, strip_vars, cli_vars >>

\* lines 154-174: a parsed entry gets its new key
RewriteEntry ==
    /\ b_pc = "loop" /\ b_i <= Len(entries)
    /\ entry # "" /\ starts_at(entry, 1, "@")
    /\ parse_matches(entry)
    /\ ~generate_citation_key_raises(parse_fields(entry))
    /\ LET old_key == old_key_of(entry)
           base_key == generate_citation_key(parse_fields(entry))
           new_key == unique_key(base_key, key_mapping)
       IN /\ ~template_raises(new_key)
          /\ key_mapping' = put(key_mapping, old_key, new_key)
          /\ new_content' = new_content \o rewrite_entry(entry, old_key, new_key) \o "\n\n"
          /\ b_log' = Append(b_log, Iteration("rewritten", old_key, base_key, new_key,
                                              rewrite_entry(entry, old_key, new_key) \o "\n\n"))
    /\ b_i' = b_i + 1
    /\ UNCHANGED << b_pass, bib_content, entries, b_pc, key_vars, cite_vars, strip_vars, cli_vars >>

\* line 155 raises IndexError (line 43), or line 168 raises re.error
RaiseInEntry ==
    /\ b_pc = "loop" /\ b_i <= Len(entries)
    /\ entry # "" /\ starts_at(entry, 1, "@")
    /\ parse_matches(entry)
    /\ IF generate_citation_key_raises(parse_fields(entry))
       THEN UNCHANGED key_mapping
       ELSE LET new_key == unique_key(generate_citation_key(parse_fields(entry)), key_mapping)
            IN /\ template_raises(new_key)
               /\ key_mapping' = put(key_mapping, old_key_of(entry), new_key)
    /\ b_pc' = "raised"
    /\ UNCHANGED << b_pass, bib_content, entries, b_i, new_content, b_log, key_vars, cite_vars, strip_vars, cli_vars >>

\* line 176
ReturnContent ==
    /\ b_pc = "loop" /\ b_i > Len(entries)
    /\ b_pc' = "return"
    /\ UNCHANGED << b_pass, bib_content, entries, b_i, new_content, key_mapping, b_log, key_vars, cite_vars, strip_vars, cli_vars >>

NextBib ==
    \/ SplitEntries
    \/ KeepPreamble
    \/ KeepUnparseable
    \/ RewriteEntry
    \/ RaiseInEntry
    \/ ReturnContent

SpecBib == InitBib /\ [][NextBib]_vars

\* regenerate_bib_keys called again, on the content the first call returned
RegenerateAgain ==
    /\ b_pc = "return" /\ b_pass = 1
    /\ bib_content' = new_content
    /\ entries' = << >> /\ b_i' = 0 /\ new_content' = ""
    /\ key_mapping' = NoField /\ b_log' = << >>
    /\ b_pc' = "call" /\ b_pass' = 2
    /\ UNCHANGED << key_vars, cite_vars, strip_vars, cli_vars >>

NextTwice == NextBib \/ RegenerateAgain

SpecTwice == InitBib /\ [][NextTwice]_vars

----------------------------------------------------------------------------
(* converters/json_to_qmd.py: extract_citation_mapping_from_bib and        *)
(* convert_inline_citations.                                               *)

\* line 150: r'@\w+\s*\{\s*([^,\s]+)\s*,' at the start: << matched, group 1 >>
key_match(entry_text) ==
    LET b == header_brace(entry_text, 1)
        k0 == run_end(entry_text, b + 1, WhiteChars)
        k1 == run_end_not(entry_text, k0, {","} \cup WhiteChars)
        c == run_end(entry_text, k1, WhiteChars)
    IN IF header_matches_at(entry_text, 1) /\ k1 > k0 /\ Ch(entry_text, c) = ","
       THEN << TRUE, SubSeq(entry_text, k0, k1 - 1) >>
       ELSE << FALSE, "" >>

\* line 157: r'author\s*=\s*[{"]([^}"]*)["}]' (IGNORECASE) tried at i
author_match_at(s, i) ==
    LET eq == run_end(s, i + 6, WhiteChars)
        open == run_end(s, eq + 1, WhiteChars)
        value_end == run_end_not(s, open + 1, {"}", "\""})
    IN IF /\ i + 5 <= Len(s) /\ lower(SubSeq(s, i, i + 5)) = "author"
          /\ Ch(s, eq) = "="
          /\ Ch(s, open) \in {"{", "\""}
          /\ value_end <= Len(s)
       THEN << TRUE, SubSeq(s, open + 1, value_end - 1) >>
       ELSE << FALSE, "" >>

\* line 158: r'year\s*=\s*[{"]?(\d{4})["}]?' tried at i
year_match_at(s, i) ==
    LET eq == run_end(s, i + 4, WhiteChars)
        open == run_end(s, eq + 1, WhiteChars)
        d == IF Ch(s, open) \in {"{", "\""} THEN open + 1 ELSE open
    IN IF /\ starts_at(s, i, "year")
          /\ Ch(s, eq) = "="
          /\ d + 3 <= Len(s)
          /\ \A j \in d..(d + 3) : Ch(s, j) \in DigitChars
       THEN << TRUE, SubSeq(s, d, d + 3) >>
       ELSE << FALSE, "" >>

\* re.search: the leftmost position at which the pattern matches
author_match(s) ==
    LET at == {i \in 1..Len(s) : author_match_at(s, i)[1]}
    IN IF at = {} THEN << FALSE, "" >>
       ELSE author_match_at(s, CHOOSE i \in at : \A j \in at : i <= j)

year_match(s) ==
    LET at == {i \in 1..Len(s) : year_match_at(s, i)[1]}
    IN IF at = {} THEN << FALSE, "" >>
       ELSE year_match_at(s, CHOOSE i \in at : \A j \in at : i <= j)

\* lines 167-178
first_author_last_of(author_field) ==
    LET first_author_field == strip(split_and_first(author_field))
        parts == split_ws(first_author_field)
        first_author_last ==
            IF has_comma(first_author_field)
            THEN strip(before_first_comma(first_author_field))
            ELSE IF parts # << >> THEN strip(parts[Len(parts)]) ELSE ""
    IN keep_chars(first_author_last, WordChars)

\* lines 184-191, without the et-al form of line 186
variations_without_etal(first_author_last, year) ==
    << first_author_last \o year,
       first_author_last \o year,
       "(" \o first_author_last \o " et al., " \o year \o ")",
       "(" \o first_author_last \o ", " \o year \o ")",
       first_author_last \o " et al., " \o year,
       first_author_last \o ", " \o year >>

\* lines 184-191
variations(first_author_last, year) ==
    << first_author_last \o year,
       first_author_last \o "etal" \o year,
       "(" \o first_author_last \o " et al., " \o year \o ")",
       "(" \o first_author_last \o ", " \o year \o ")",
       first_author_last \o " et al., " \o year,
       first_author_last \o ", " \o year >>

\* lines 146-181: whether the loop body reaches line 184 for the entry
is_indexed(entry_text) ==
    /\ strip(entry_text) # "" /\ starts_at(entry_text, 1, "@")
    /\ key_match(entry_text)[1]
    /\ author_match(entry_text)[1] /\ year_match(entry_text)[1]
    /\ first_author_last_of(author_match(entry_text)[2]) # ""

cite_key_of(entry_text) == strip(key_match(entry_text)[2])
cite_last_of(entry_text) == first_author_last_of(author_match(entry_text)[2])
cite_year_of(entry_text) == year_match(entry_text)[2]

\* lines 194-195 with a variant that is in the table left as it is
RECURSIVE store_variations_keep_first(_, _, _)
store_variations_keep_first(mapping, vs, cite_key) ==
    IF vs = << >> THEN mapping
    ELSE store_variations_keep_first(
            IF strip(lower(Head(vs))) \in DOMAIN mapping THEN mapping
            ELSE put(mapping, strip(lower(Head(vs))), cite_key),
            Tail(vs), cite_key)

\* lines 194-195
RECURSIVE store_variations(_, _, _)
store_variations(mapping, vs, cite_key) ==
    IF vs = << >> THEN mapping
    ELSE store_variations(put(mapping, strip(lower(Head(vs))), cite_key), Tail(vs), cite_key)

\* lines 145-195: the for loop from the entry i on
RECURSIVE mapping_from(_, _, _)
mapping_from(es, i, mapping) ==
    IF i > Len(es) THEN mapping
    ELSE mapping_from(es, i + 1,
            IF is_indexed(es[i])
            THEN store_variations(mapping,
                    variations(cite_last_of(es[i]), cite_year_of(es[i])),
                    cite_key_of(es[i]))
            ELSE mapping)

\* lines 136-200, for the text of the file
extract_citation_mapping_from_bib(content) ==
    mapping_from(re_split_entries(content), 1, NoField)

\* line 225: r'(?:\()?([A-Za-z]+)(?:\s+et\s+al\.)?,?\s+(\d{4})(?:\))?' at the
\* start: << matched, group 1, group 2 >>
fallback_match(paper_title) ==
    LET a0 == IF Ch(paper_title, 1) = "(" THEN 2 ELSE 1
        a1 == run_end(paper_title, a0, AlphaChars)
        w1 == run_end(paper_title, a1, WhiteChars)
        w2 == run_end(paper_title, w1 + 2, WhiteChars)
        etal == /\ w1 > a1 /\ starts_at(paper_title, w1, "et")
                /\ w2 > w1 + 2 /\ starts_at(paper_title, w2, "al.")
        p == IF etal THEN w2 + 3 ELSE a1
        c == IF Ch(paper_title, p) = "," THEN p + 1 ELSE p
        d == run_end(paper_title, c, WhiteChars)
    IN IF /\ a1 > a0 /\ d > c /\ d + 3 <= Len(paper_title)
          /\ \A j \in d..(d + 3) : Ch(paper_title, j) \in DigitChars
       THEN << TRUE, SubSeq(paper_title, a0, a1 - 1), SubSeq(paper_title, d, d + 3) >>
       ELSE << FALSE, "", "" >>

\* lines 224-233
fallback_key(paper_title) ==
    LET m == fallback_match(paper_title)
    IN IF m[1] THEN m[2] \o m[3] ELSE keep_chars(paper_title, WordChars)

\* lines 210-233 with the fallback of line 225 tried before the table
replace_citation_fallback_first(group1, mapping) ==
    LET paper_title == strip(group1)
        lookup_key == strip(lower(paper_title))
        lookup_key_no_parens == strip(lower(strip_chars(paper_title, {"(", ")"})))
    IN IF fallback_match(paper_title)[1]
       THEN "[@" \o fallback_key(paper_title) \o "]"
       ELSE IF DOMAIN mapping # {} /\ lookup_key \in DOMAIN mapping
       THEN "[@" \o mapping[lookup_key] \o "]"
       ELSE IF DOMAIN mapping # {} /\ lookup_key_no_parens \in DOMAIN mapping
       THEN "[@" \o mapping[lookup_key_no_parens] \o "]"
       ELSE "[@" \o fallback_key(paper_title) \o "]"

\* lines 210-233
replace_citation(group1, mapping) ==
    LET paper_title == strip(group1)
        lookup_key == strip(lower(paper_title))
        lookup_key_no_parens == strip(lower(strip_chars(paper_title, {"(", ")"})))
    IN IF DOMAIN mapping # {} /\ lookup_key \in DOMAIN mapping
       THEN "[@" \o mapping[lookup_key] \o "]"
       ELSE IF DOMAIN mapping # {} /\ lookup_key_no_parens \in DOMAIN mapping
       THEN "[@" \o mapping[lookup_key_no_parens] \o "]"
       ELSE "[@" \o fallback_key(paper_title) \o "]"

\* line 208: r'<Paper[^>]*paperTitle="([^"]*)"[^>]*></Paper>' tried at i:
\* << matched, group 1, position after the match >>.  The first [^>]* is
\* greedy: of the attributes it can stop before, the last one is taken.
paper_match_at(s, i) ==
    LET gt == find_char(s, i + 6, ">")
        limit == IF gt = 0 THEN Len(s) ELSE gt
        closes(j) ==
            LET q == find_char(s, j + 12, "\"")
                r == IF q = 0 THEN 0 ELSE find_char(s, q + 1, ">")
            IN << q # 0 /\ r # 0 /\ starts_at(s, r, "></Paper>"), q, r >>
        at == {j \in (i + 6)..limit : starts_at(s, j, "paperTitle=\"") /\ closes(j)[1]}
        j == CHOOSE x \in at : \A y \in at : y <= x
    IN IF starts_at(s, i, "<Paper") /\ at # {}
       THEN << TRUE, SubSeq(s, j + 12, closes(j)[2] - 1), closes(j)[3] + 9 >>
       ELSE << FALSE, "", i + 1 >>

\* line 235: re.sub(pattern, replace_citation, text) from the position i on
RECURSIVE sub_paper_from(_, _, _)
sub_paper_from(s, i, mapping) ==
    LET at == {k \in i..Len(s) : paper_match_at(s, k)[1]}
        k == CHOOSE x \in at : \A y \in at : x <= y
        m == paper_match_at(s, k)
    IN IF at = {} THEN SubSeq(s, i, Len(s))
       ELSE SubSeq(s, i, k - 1) \o replace_citation(m[2], mapping)
                \o sub_paper_from(s, m[3], mapping)

convert_inline_citations(text, mapping) == sub_paper_from(text, 1, mapping)

\* ord, for the characters of the texts of the model
Chr32To95 == " !\"#$%&'()*+,-./0123456789:;<=>?@ABCDEFGHIJKLMNOPQRSTUVWXYZ[\\]^_"
ord(c) ==
    IF find_char(Chr32To95, 1, c) # 0 THEN 31 + find_char(Chr32To95, 1, c)
    ELSE IF find_char(Chr97To126, 1, c) # 0 THEN 96 + find_char(Chr97To126, 1, c)
    ELSE IF c = "\t" THEN 9 ELSE IF c = "\n" THEN 10 ELSE IF c = Chr11 THEN 11
    ELSE IF c = "\f" THEN 12 ELSE IF c = "\r" THEN 13
    ELSE IF c = "" THEN 28 ELSE IF c = "" THEN 29 ELSE IF c = "" THEN 30 ELSE 31

\* a < b for two str
RECURSIVE str_less(_, _)
str_less(a, b) ==
    IF b = "" THEN FALSE
    ELSE IF a = "" THEN TRUE
    ELSE IF Head(a) # Head(b) THEN ord(Head(a)) < ord(Head(b))
    ELSE str_less(Tail(a), Tail(b))

\* sorted(S) for a set of str
RECURSIVE sorted(_)
sorted(S) ==
    IF S = {} THEN << >>
    ELSE LET least == CHOOSE x \in S : \A y \in S \ {x} : str_less(x, y)
         IN << least >> \o sorted(S \ {least})

\* A Python object where the converters depend on its class (the document,
\* its sections, a section, the text of a section): the name of the class
\* and the value.  The other values of a document are of the classes the
\* ASTRA format gives them and are written bare.
PyObject(type, value) == [type |-> type, value |-> value]

\* d.get(k, default)
dget(d, k, default) == IF k \in DOMAIN d THEN d[k] ELSE default


\* lines 259-266: all_citations after the citations cs of the section at
\* the head of sections, then the sections that follow
RECURSIVE all_citations_from(_, _, _)
all_citations_from(sections, cs, all_citations) ==
    IF cs # << >>
    THEN all_citations_from(sections, Tail(cs),
            IF dget(Head(cs), "id", "") # "" /\ dget(Head(cs), "id", "") \notin DOMAIN all_citations
            THEN put(all_citations, Head(cs).id, Head(cs))
            ELSE all_citations)
    ELSE IF sections = << >> THEN all_citations
    ELSE all_citations_from(Tail(sections),
                            dget(Head(sections).value, "citations", << >>), all_citations)

\* lines 290-302: the key the table shows for a citation
summary_cite_key(citation_id, mapping) ==
    IF DOMAIN mapping # {}
    THEN IF strip(lower(citation_id)) \in DOMAIN mapping
         THEN mapping[strip(lower(citation_id))]
         ELSE citation_id
    ELSE fallback_key(citation_id)

\* lines 279-304: one row of the table
summary_row(citation_id, paper, mapping) ==
    LET title == dget(paper, "title", "Unknown Title")
    IN "| " \o Grave \o "@" \o summary_cite_key(citation_id, mapping) \o Grave \o " | "
       \o (IF Len(title) > 60 THEN SubSeq(title, 1, 57) \o "..." ELSE title)
       \o " | " \o dget(paper, "year", "Unknown")
       \o " | " \o dget(paper, "venue", "N/A") \o " |\n"

\* lines 278-304
RECURSIVE summary_rows(_, _, _)
summary_rows(ids, all_citations, mapping) ==
    IF ids = << >> THEN ""
    ELSE summary_row(Head(ids), dget(all_citations[Head(ids)], "paper", NoField), mapping)
         \o summary_rows(Tail(ids), all_citations, mapping)

\* lines 257-306
build_bib_entries_summary(sections, mapping) ==
    LET all_citations == all_citations_from(sections, << >>, NoField)
    IN IF DOMAIN all_citations = {} THEN ""
       ELSE "\n## References Summary\n\n"
            \o "The following sources are cited in this report and detailed in the accompanying "
            \o Grave \o ".bib" \o Grave \o " file:\n\n"
            \o "| Citation | Title | Year | Venue |\n"
            \o "|----------|-------|------|-------|\n"
            \o summary_rows(sorted(DOMAIN all_citations), all_citations, mapping)

----------------------------------------------------------------------------
(* The citation resolver on a bibliography and a text with one marker.     *)

MaxCiteEntries == 3

CiteFragments ==
    { "@article{smith2020paper,\n  author = {Smith, John},\n  year = {2020}\n}\n",
      "@book{s2, AUTHOR=\"Bob SMITH and Al Doe\", year=2020}\n",
      "@misc{se,author={Smithetal},year={2020}}\n",
      "@misc{ doe19 ,author = \"Doe\",year = \"2019\"}\n\n",
      "@misc{roe,author={Roe, R},title={Deep Nets}}\n",
      "@misc{smith2020paper,author={Smithetal},year={2020}}\n" }

RECURSIVE CiteBibs(_)
CiteBibs(n) ==
    IF n = 0 THEN {""}
    ELSE CiteBibs(n - 1) \cup {t \o f : t \in CiteBibs(n - 1), f \in CiteFragments}

Markers ==
    { "Smith2020", "Smithetal2020", "(Smith et al., 2020)", "(Smith, 2020)",
      "Smith et al., 2020", "Smith, 2020",
      "Doe2019", "Doeetal2019", "(Doe et al., 2019)", "(Doe, 2019)",
      "Doe et al., 2019", "Doe, 2019",
      "(Smithetal, 2020)", "  (smith ET AL., 2020)\t", "SMITH2020", " Smith, 2020 ",
      "(Smith2020", "(Smith, 2020", "Smith, 2020)", "((Smith, 2020))",
      "( Smith, 2020 )", "Roe et al. 2021", "Roe 2021x", "Deep Nets", "A-b!", "",
      "Smith,2020", "(2020)", "Smith et 2020", " Smith et al., 2020",
      "a_b", "Smith et al.,2020", "Smith 20201" }

CitedPaper == [title |-> "Deep Nets", year |-> "2020", venue |-> "NeurIPS"]
CiteBefore == "See "
CiteAfter == "."
PaperTag(paper_title) ==
    "<Paper corpusId=\"1\" paperTitle=\"" \o paper_title \o "\" isShortName></Paper>"

InitCite ==
    /\ KeyIdle /\ BibIdle /\ StripIdle /\ CliIdle
    /\ c_bib \in CiteBibs(MaxCiteEntries)
    /\ c_marker \in Markers
    /\ c_text = CiteBefore \o PaperTag(c_marker) \o CiteAfter
    /\ c_sections = << PyObject("dict",
                            [title |-> "Intro", text |-> PyObject("str", c_text),
                             citations |-> << [id |-> c_marker, paper |-> CitedPaper] >>]) >>
    /\ citation_mapping = NoField /\ c_out = "" /\ c_summary = "" /\ c_pc = "call"

\* lines 131-200
ExtractCitationMapping ==
    /\ c_pc = "call"
    /\ citation_mapping' = extract_citation_mapping_from_bib(c_bib)
    /\ c_pc' = "convert"
    /\ UNCHANGED << c_bib, c_marker, c_text, c_out, c_sections, c_summary,
                    key_vars, bib_vars, strip_vars, cli_vars >>

\* lines 203-235
ConvertInlineCitations ==
    /\ c_pc = "convert"
    /\ c_out' = convert_inline_citations(c_text, citation_mapping)
    /\ c_pc' = "done"
    /\ UNCHANGED << c_bib, c_marker, c_text, citation_mapping, c_sections, c_summary,
                    key_vars, bib_vars, strip_vars, cli_vars >>

\* lines 405-407: the table, after the sections
BuildBibEntriesSummary ==
    /\ c_pc = "done"
    /\ c_summary' = build_bib_entries_summary(c_sections, citation_mapping)
    /\ c_pc' = "end"
    /\ UNCHANGED << c_bib, c_marker, c_text, c_out, citation_mapping, c_sections,
                    key_vars, bib_vars, strip_vars, cli_vars >>

NextCite == ExtractCitationMapping \/ ConvertInlineCitations \/ BuildBibEntriesSummary

SpecCite == InitCite /\ [][NextCite]_vars

----------------------------------------------------------------------------
(* convert_model_tags of converters/json_to_qmd.py and of                  *)
(* converters/json_to_md.py.                                               *)

PunctChars == {".", ",", ";", ":", "!", "?"}
BlankChars == {" ", "\t"}

\* s.find(lit, i - 1) + 1, or 0
find_str(s, i, lit) ==
    LET at == {j \in i..Len(s) : starts_at(s, j, lit)}
    IN IF at = {} THEN 0 ELSE CHOOSE j \in at : \A k \in at : j <= k

\* r'<Model[^>]*>' tried at i: the position of its ">", or 0
model_open_end(s, i) ==
    IF starts_at(s, i, "<Model") THEN find_char(s, i + 6, ">") ELSE 0

\* json_to_qmd.py line 241, r'<Model[^>]*>.*?</Model>' tried at i: the
\* position after the match, or 0 (the dot matches no line break)
model_pair_end(s, i) ==
    LET g == model_open_end(s, i)
        e == IF g = 0 THEN 0 ELSE find_str(s, g + 1, "</Model>")
    IN IF g # 0 /\ e # 0 /\ \A k \in (g + 1)..(e - 1) : Ch(s, k) # "\n"
       THEN e + 8 ELSE 0

\* line 242
RECURSIVE remove_pairs_from(_, _)
remove_pairs_from(s, i) ==
    LET at == {k \in i..Len(s) : model_pair_end(s, k) # 0}
        k == CHOOSE x \in at : \A y \in at : x <= y
    IN IF at = {} THEN SubSeq(s, i, Len(s))
       ELSE SubSeq(s, i, k - 1) \o remove_pairs_from(s, model_pair_end(s, k))

\* lines 245-246: r'<Model[^>]*/?>'
RECURSIVE remove_opens_from(_, _)
remove_opens_from(s, i) ==
    LET at == {k \in i..Len(s) : model_open_end(s, k) # 0}
        k == CHOOSE x \in at : \A y \in at : x <= y
    IN IF at = {} THEN SubSeq(s, i, Len(s))
       ELSE SubSeq(s, i, k - 1) \o remove_opens_from(s, model_open_end(s, k) + 1)

\* line 249: r'[ \t]{2,}' becomes one space
RECURSIVE collapse_blanks_from(_, _)
collapse_blanks_from(s, i) ==
    LET at == {k \in i..Len(s) : Ch(s, k) \in BlankChars /\ Ch(s, k + 1) \in BlankChars}
        k == CHOOSE x \in at : \A y \in at : x <= y
    IN IF at = {} THEN SubSeq(s, i, Len(s))
       ELSE SubSeq(s, i, k - 1) \o " " \o collapse_blanks_from(s, run_end(s, k, BlankChars))

\* line 252: r'\s+([.,;:!?])' becomes the punctuation mark
RECURSIVE unspace_punct_from(_, _)
unspace_punct_from(s, i) ==
    LET at == {k \in i..Len(s) : /\ Ch(s, k) \in WhiteChars
                                 /\ Ch(s, run_end(s, k, WhiteChars)) \in PunctChars}
        k == CHOOSE x \in at : \A y \in at : x <= y
    IN IF at = {} THEN SubSeq(s, i, Len(s))
       ELSE SubSeq(s, i, k - 1) \o unspace_punct_from(s, run_end(s, k, WhiteChars))

\* json_to_qmd.py lines 238-254
qmd_convert_model_tags(text) ==
    strip(unspace_punct_from(
            collapse_blanks_from(
                remove_opens_from(remove_pairs_from(text, 1), 1), 1), 1))

\* json_to_md.py line 32, r'<Model[^>]*>\.?</Model>' tried at i: the position
\* after the match, or 0
model_empty_end(s, i) ==
    LET g == model_open_end(s, i)
    IN IF g # 0 /\ Ch(s, g + 1) = "." /\ starts_at(s, g + 2, "</Model>") THEN g + 10
       ELSE IF g # 0 /\ starts_at(s, g + 1, "</Model>") THEN g + 9
       ELSE 0

\* line 33
RECURSIVE remove_empty_from(_, _)
remove_empty_from(s, i) ==
    LET at == {k \in i..Len(s) : model_empty_end(s, k) # 0}
        k == CHOOSE x \in at : \A y \in at : x <= y
    IN IF at = {} THEN SubSeq(s, i, Len(s))
       ELSE SubSeq(s, i, k - 1) \o remove_empty_from(s, model_empty_end(s, k))

\* json_to_md.py lines 30-33
md_convert_model_tags(text) == remove_empty_from(text, 1)

MaxPieces == 3
MaxPasses == 2

Pieces ==
    { "<Model>", "</Model>", "<Model id=\"1\"></Model>", "<Mod", "el>",
      "x", " ", ".", "\n" }

RECURSIVE MarkedTexts(_)
MarkedTexts(n) ==
    IF n = 0 THEN {""}
    ELSE MarkedTexts(n - 1) \cup {t \o p : t \in MarkedTexts(n - 1), p \in Pieces}

InitStrip ==
    /\ KeyIdle /\ BibIdle /\ CiteIdle /\ CliIdle
    /\ s_conv \in {"qmd", "md"}
    /\ s_text \in MarkedTexts(MaxPieces)
    /\ s_out = << >>

\* the text the next application is given
s_current == IF s_out = << >> THEN s_text ELSE s_out[Len(s_out)]

QmdConvertModelTags ==
    /\ s_conv = "qmd" /\ Len(s_out) < MaxPasses
    /\ s_out' = Append(s_out, qmd_convert_model_tags(s_current))
    /\ UNCHANGED << s_conv, s_text, key_vars, bib_vars, cite_vars, cli_vars >>

MdConvertModelTags ==
    /\ s_conv = "md" /\ Len(s_out) < MaxPasses
    /\ s_out' = Append(s_out, md_convert_model_tags(s_current))
    /\ UNCHANGED << s_conv, s_text, key_vars, bib_vars, cite_vars, cli_vars >>

NextStrip == QmdConvertModelTags \/ MdConvertModelTags

SpecStrip == InitStrip /\ [][NextStrip]_vars

----------------------------------------------------------------------------
(* os.path, the files, json.load, sorted.                                  *)

\* s.rfind(c) + 1
rfind_char(s, c) ==
    IF \E j \in 1..Len(s) : Ch(s, j) = c
    THEN CHOOSE j \in 1..Len(s) : Ch(s, j) = c /\ \A k \in (j + 1)..Len(s) : Ch(s, k) # c
    ELSE 0

\* os.path.basename, os.path.dirname, os.path.splitext(p)[0] (posixpath)
basename(p) == SubSeq(p, rfind_char(p, "/") + 1, Len(p))

dirname(p) ==
    LET head == SubSeq(p, 1, rfind_char(p, "/"))
    IN IF head # "" /\ \E k \in 1..Len(head) : Ch(head, k) # "/"
       THEN rstrip_chars(head, {"/"}) ELSE head

splitext_root(p) ==
    LET sep == rfind_char(p, "/")
        dot == rfind_char(p, ".")
    IN IF dot > sep /\ \E k \in (sep + 1)..(dot - 1) : Ch(p, k) # "."
       THEN SubSeq(p, 1, dot - 1) ELSE p

\* os.path.join(a, b) for a relative b
path_join(a, b) == IF a = "" \/ Ch(a, Len(a)) = "/" THEN a \o b ELSE a \o "/" \o b

\* the file a path names: "./" in front names the same file
RECURSIVE norm_path(_)
norm_path(p) == IF starts_at(p, 1, "./") THEN norm_path(SubSeq(p, 3, Len(p))) ELSE p

\* the files are a function from the paths that exist to their text
path_exists(files, p) == norm_path(p) \in DOMAIN files
read_file(files, p) == files[norm_path(p)]

\* what open(p, 'r') does to the line ends on POSIX: "\r\n" and "\r" are
\* read as "\n" (and open(p, 'w') writes "\n" as it is)
RECURSIVE universal_newlines_from(_, _)
universal_newlines_from(s, i) ==
    LET k == find_char(s, i, "\r")
    IN IF k = 0 THEN SubSeq(s, i, Len(s))
       ELSE SubSeq(s, i, k - 1) \o "\n"
            \o universal_newlines_from(s, IF Ch(s, k + 1) = "\n" THEN k + 2 ELSE k + 1)

\* with open(p, 'r', encoding='utf-8') as f: f.read()
read_text(files, p) == universal_newlines_from(read_file(files, p), 1)
write_file(files, p, text) == put(files, norm_path(p), text)

\* with open(p, 'w') as f: f.write(text), in a run where the write of the
\* file fault.path fails: open raises and the file is as it was, or open
\* has truncated the file and only the first fault.written characters
\* reach it before OSError is raised
write_raises(p) == fault.path # "" /\ norm_path(p) = fault.path

write_text(files, p, text) ==
    IF ~write_raises(p) THEN write_file(files, p, text)
    ELSE IF fault.at = "open" THEN files
    ELSE write_file(files, p,
            SubSeq(text, 1, IF Len(text) < fault.written THEN Len(text) ELSE fault.written))

\* str(e) of the OSError
write_error(p) ==
    IF fault.at = "open" THEN "[Errno 13] Permission denied: '" \o p \o "'"
    ELSE "[Errno 28] No space left on device"

\* s.split(c), s.rsplit(c, 1)
RECURSIVE split_char(_, _)
split_char(s, c) ==
    LET i == find_char(s, 1, c)
    IN IF i = 0 THEN << s >>
       ELSE << SubSeq(s, 1, i - 1) >> \o split_char(SubSeq(s, i + 1, Len(s)), c)

rsplit1(s, c) ==
    LET i == rfind_char(s, c)
    IN IF i = 0 THEN << s >> ELSE << SubSeq(s, 1, i - 1), SubSeq(s, i + 1, Len(s)) >>

----------------------------------------------------------------------------
(* The documents: json.load on the texts of the model.                     *)

JsonFull ==
    "{\"id\": \"r1\", \"query\": \"Q?\", \"type\": \"Survey\", \"sections\": ["
    \o "{\"title\": \"Intro\", \"tldr\": \"Short\", \"text\": "
    \o "\"<Model id=\\\"1\\\">m</Model>See <Paper paperTitle=\\\"(Smith, 2020)\\\"></Paper> .\"}, "
    \o "{\"text\": \"x\"}]}"
JsonCited ==
    "{\"query\": \"Q?\", \"sections\": [{\"title\": \"A\", \"text\": "
    \o "\"See <Paper paperTitle=\\\"Smith2020\\\"></Paper>\", \"citations\": ["
    \o "{\"id\": \"Smith2020\", \"paper\": {\"title\": \"Deep Nets\", \"year\": \"2020\", "
    \o "\"venue\": \"NeurIPS\", \"corpusId\": \"77\", \"nCitations\": 12, "
    \o "\"authors\": [{\"name\": \"J. Smith\"}, {\"name\": \"A. Doe\"}]}, "
    \o "\"snippets\": [\"deep nets work\"]}, "
    \o "{\"id\": \"(Doe, 2019)\", \"paper\": {\"title\": \"T\"}}, {\"id\": \"\"}]}]}"
JsonEmpty == "{}"
JsonList == "[]"
JsonCut == "{\"id\": "
JsonSectionsInt == "{\"sections\": 5}"
JsonSectionInt == "{\"sections\": [{\"text\": \"x\"}, 1]}"
JsonTextInt == "{\"sections\": [{\"text\": 5}]}"
JsonTextZero == "{\"sections\": [{\"text\": 0}]}"

JsonTexts == {JsonFull, JsonCited, JsonEmpty, JsonList, JsonCut,
              JsonSectionsInt, JsonSectionInt, JsonTextInt, JsonTextZero}

\* json.load(f) raises JSONDecodeError
json_load_raises(text) == text = JsonCut

json_load(text) ==
    IF text = JsonFull
    THEN PyObject("dict",
         [id |-> "r1", query |-> "Q?", type |-> "Survey",
          sections |-> PyObject("list", <<
              PyObject("dict", [title |-> "Intro", tldr |-> "Short",
                                text |-> PyObject("str", "<Model id=\"1\">m</Model>See <Paper paperTitle=\"(Smith, 2020)\"></Paper> .")]),
              PyObject("dict", [text |-> PyObject("str", "x")]) >>)])
    ELSE IF text = JsonCited
    THEN PyObject("dict",
         [query |-> "Q?",
          sections |-> PyObject("list", <<
              PyObject("dict",
                  [title |-> "A",
                   text |-> PyObject("str", "See <Paper paperTitle=\"Smith2020\"></Paper>"),
                   citations |-> <<
                       [id |-> "Smith2020",
                        paper |-> [title |-> "Deep Nets", year |-> "2020",
                                   venue |-> "NeurIPS", corpusId |-> "77",
                                   nCitations |-> 12,
                                   authors |-> << [name |-> "J. Smith"],
                                                  [name |-> "A. Doe"] >>],
                        snippets |-> << "deep nets work" >>],
                       [id |-> "(Doe, 2019)", paper |-> [title |-> "T"]],
                       [id |-> ""] >>]) >>)])
    ELSE IF text = JsonSectionsInt
    THEN PyObject("dict", [sections |-> PyObject("int", 5)])
    ELSE IF text = JsonSectionInt
    THEN PyObject("dict",
         [sections |-> PyObject("list", << PyObject("dict", [text |-> PyObject("str", "x")]),
                                           PyObject("int", 1) >>)])
    ELSE IF text = JsonTextInt
    THEN PyObject("dict",
         [sections |-> PyObject("list", << PyObject("dict", [text |-> PyObject("int", 5)]) >>)])
    ELSE IF text = JsonTextZero
    THEN PyObject("dict",
         [sections |-> PyObject("list", << PyObject("dict", [text |-> PyObject("int", 0)]) >>)])
    ELSE IF text = JsonList THEN PyObject("list", << >>)
    ELSE PyObject("dict", NoField)

\* str(e) of the JSONDecodeError json.load(f) raises
json_error(text) == "Expecting value: line 1 column 8 (char 7)"

\* bool(obj) of a str or an int
truthy(obj) == IF obj.type = "str" THEN obj.value # "" ELSE obj.value # 0

\* the loop over the items of sections (json_to_qmd.py lines 383-400,
\* json_to_md.py lines 135-151): str(e) of the exception of the first item
\* that raises one, the AttributeError of section.get on an item that is no
\* dict or the TypeError of re.sub on a text that is true and no str; ""
\* when no item raises
RECURSIVE sections_error(_)
sections_error(sections) ==
    IF sections = << >> THEN ""
    ELSE IF Head(sections).type # "dict" THEN "'" \o Head(sections).type \o "' object has no attribute 'get'"
    ELSE IF /\ truthy(dget(Head(sections).value, "text", PyObject("str", "")))
            /\ dget(Head(sections).value, "text", PyObject("str", "")).type # "str"
    THEN "expected string or bytes-like object, got '"
         \o dget(Head(sections).value, "text", PyObject("str", "")).type \o "'"
    ELSE sections_error(Tail(sections))

\* str(e) of the exception the converters raise on the document data: the
\* AttributeError of data.get, the TypeError of the for loop over sections
\* that are a number (a str and a dict, which Python iterates, stand for
\* the sections of no document here), the exception of the loop body; ""
\* when they raise none
document_error(data) ==
    IF data.type # "dict" THEN "'" \o data.type \o "' object has no attribute 'get'"
    ELSE IF dget(data.value, "sections", PyObject("list", << >>)).type # "list"
    THEN "'" \o dget(data.value, "sections", PyObject("list", << >>)).type
         \o "' object is not iterable"
    ELSE sections_error(dget(data.value, "sections", PyObject("list", << >>)).value)

\* str(e) of the exception the converters raise on the text of the input
\* file; "" when they raise none
convert_error(text) ==
    IF json_load_raises(text) THEN json_error(text) ELSE document_error(json_load(text))

----------------------------------------------------------------------------
(* converters/json_to_qmd.py: the document.                                *)

\* str(files('astra_tools') / 'data' / 'apa.csl')
BundledCsl == "/site-packages/astra_tools/data/apa.csl"

\* lines 33-78; None is "".  << csl_filename, the files, what is printed >>
copy_csl_file(files, target_dir, csl_file_path) ==
    LET src == IF csl_file_path = "" THEN BundledCsl ELSE csl_file_path
        csl_filename == basename(src)
        target_path == path_join(target_dir, csl_filename)
    IN IF ~path_exists(files, src)
       THEN << "", files, << "Warning: CSL file not found: " \o src >> >>
       ELSE IF /\ path_exists(files, target_path)
               /\ read_file(files, src) = read_file(files, target_path)
       THEN << csl_filename, files, << >> >>
       ELSE << csl_filename, write_file(files, target_path, read_file(files, src)),
               << "Copied CSL file: " \o csl_filename >> >>

\* s.endswith(suffix)
endswith(s, suffix) == starts_at(s, Len(s) - Len(suffix) + 1, suffix)

\* line 107: glob.glob(os.path.join(json_dir, '*.bib')), for a json_dir
\* without pattern characters: the files of the directory whose name ends
\* in ".bib" and does not start with a dot, as paths under json_dir, in
\* the order the directory lists them (dir_order, then the files it does
\* not name)
glob_bib(files, json_dir) ==
    LET found == {p \in DOMAIN files :
                    /\ dirname(p) = (IF json_dir = "." THEN "" ELSE norm_path(json_dir))
                    /\ endswith(basename(p), ".bib")
                    /\ ~starts_at(basename(p), 1, ".")}
        is_found(p) == p \in found
        listed == SelectSeq(dir_order, is_found)
                  \o sorted(found \ {dir_order[i] : i \in DOMAIN dir_order})
    IN [i \in 1..Len(listed) |-> path_join(json_dir, basename(listed[i]))]

\* line 110
not_backup_or_new(f) == ~endswith(f, ".backup") /\ ~endswith(f, ".new.bib")

\* lines 108-120, with globbed what glob.glob returned; None is "".
\* << bib_file, what is printed >>
pick_bib_file(globbed, json_name_no_ext) ==
    LET bib_files == SelectSeq(globbed, not_backup_or_new)
        json_prefix == split_char(split_char(json_name_no_ext, "_")[1], "-")[1]
        similar == {i \in 1..Len(bib_files) : find_str(basename(bib_files[i]), 1, json_prefix) # 0}
        bib == bib_files[CHOOSE i \in similar : \A j \in similar : i <= j]
    IN IF globbed = << >> THEN << "", << >> >>
       ELSE IF Len(bib_files) = 1
       THEN << bib_files[1], << "Found bibliography file: " \o basename(bib_files[1]) >> >>
       ELSE IF similar # {}
       THEN << bib, << "Found bibliography file: " \o basename(bib) >> >>
       ELSE << "", << >> >>

\* lines 81-128; None is "".  << bib_file, what is printed >>
check_bib_file(files, json_file_path) ==
    LET bib_file == splitext_root(json_file_path) \o ".bib"
        json_dir == dirname(json_file_path)
        json_name_no_ext == splitext_root(basename(json_file_path))
        parts == rsplit1(json_name_no_ext, "-")
        alt_path == path_join(json_dir, parts[1] \o "_" \o parts[2] \o ".bib")
        looked == IF json_dir = "" THEN << "", << >> >>
                  ELSE pick_bib_file(glob_bib(files, json_dir), json_name_no_ext)
    IN IF path_exists(files, bib_file) THEN << bib_file, << >> >>
       ELSE IF Len(parts) = 2 /\ path_exists(files, alt_path) THEN << alt_path, << >> >>
       ELSE IF looked[1] # "" THEN looked
       ELSE << "", << "\nWARNING: Bibliography file not found!",
                      "Expected: " \o bib_file,
                      "\nPlease download the .bib file from ASTRA (astra.allen.ai)",
                      "and save it with the same name as your JSON file:",
                      "  " \o basename(bib_file),
                      "\nThe .bib file should be in the same directory as the JSON file." >> >>

\* lines 370-373, json_to_md.py lines 121-124
generated_line(json_file_path) ==
    LET filename_parts == split_char(basename(json_file_path), "-")
    IN IF Len(filename_parts) >= 3
       THEN "**Generated:** " \o filename_parts[1] \o "-" \o filename_parts[2]
                \o "-" \o filename_parts[3] \o "\n\n"
       ELSE ""

\* lines 383-403, for a loop that raises nothing
RECURSIVE qmd_sections(_, _)
qmd_sections(sections, mapping) ==
    IF sections = << >> THEN ""
    ELSE LET section == Head(sections).value
             tldr == dget(section, "tldr", "")
             text == dget(section, "text", PyObject("str", ""))
         IN "## " \o dget(section, "title", "Untitled Section") \o "\n\n"
            \o (IF tldr # ""
                THEN "::: {.callout-note}\n## TL;DR\n" \o tldr \o "\n:::\n\n" ELSE "")
            \o (IF truthy(text)
                THEN convert_inline_citations(qmd_convert_model_tags(text.value), mapping)
                     \o "\n\n"
                ELSE "")
            \o qmd_sections(Tail(sections), mapping)

\* lines 344-414: md_content, when nothing raises
qmd_content(json_file_path, bib_file_path, csl_filename, data, mapping) ==
    LET query == dget(data.value, "query", "")
        sections == dget(data.value, "sections", PyObject("list", << >>))
    IN "---\n"
       \o "title: \"ASTRA " \o dget(data.value, "type", "Report") \o ": "
       \o (IF query # "" THEN query ELSE "Research Report") \o "\"\n"
       \o "format:\n  pdf:\n    toc: true\n    number-sections: true\n"
       \o (IF bib_file_path # ""
           THEN "bibliography: " \o basename(bib_file_path) \o "\n"
                \o "csl: " \o csl_filename \o "\nlink-citations: true\n"
           ELSE "")
       \o "---\n\n## Document Information\n\n"
       \o "**Report ID:** " \o Grave \o dget(data.value, "id", "Unknown") \o Grave \o "\n\n"
       \o generated_line(json_file_path)
       \o (IF query # "" THEN "**Research Question:** " \o query \o "\n\n" ELSE "")
       \o "---\n\n"
       \o qmd_sections(sections.value, mapping)
       \o (IF bib_file_path # ""
           THEN build_bib_entries_summary(sections.value, mapping)
                \o "\n## References\n\n::: {#refs}\n:::\n"
           ELSE "\n**Note:** Bibliography file not found. Citations may not render correctly.\n")

\* lines 334-416, after the bibliography check (checked) and the copy of
\* the style file (copied)
qmd_converted(json_file_path, checked, copied, text, mapping) ==
    [raises |-> convert_error(text) # "",
     error |-> convert_error(text),
     content |-> IF convert_error(text) = ""
                 THEN qmd_content(json_file_path, checked[1],
                                  IF copied[1] = "" THEN "apa.csl" ELSE copied[1],
                                  json_load(text), mapping)
                 ELSE "",
     qmd_file |-> splitext_root(json_file_path) \o ".qmd",
     csl_filename |-> IF copied[1] = "" THEN "apa.csl" ELSE copied[1],
     files |-> copied[2],
     out |-> checked[2] \o copied[3]
            \o (IF checked[1] # "" /\ ~json_load_raises(text)
                THEN << "Found " \o str_nat(Cardinality(values(mapping)))
                            \o " unique citation keys in bibliography",
                        "Built " \o str_nat(Cardinality(DOMAIN mapping))
                            \o " citation mappings" >>
                ELSE << >>)]

\* lines 339-342
mapping_of(files, bib_file_path) ==
    IF bib_file_path # ""
    THEN extract_citation_mapping_from_bib(read_text(files, bib_file_path))
    ELSE NoField

\* lines 321-332, with checked the bibliography check of lines 321-322
qmd_copied(files, json_file_path, checked, csl_file_path) ==
    qmd_converted(json_file_path, checked,
        copy_csl_file(files, IF dirname(json_file_path) = "" THEN "."
                             ELSE dirname(json_file_path), csl_file_path),
        read_text(files, json_file_path),
        mapping_of(files, checked[1]))

\* lines 309-416.  [raises, error, content, qmd_file, csl_filename, files, out]
convert_json_to_qmd(files, json_file_path, bib_file_arg, csl_file_path) ==
    qmd_copied(files, json_file_path,
        IF bib_file_arg = "" THEN check_bib_file(files, json_file_path)
        ELSE << bib_file_arg, << >> >>,
        csl_file_path)

----------------------------------------------------------------------------
(* converters/json_to_md.py: the document.                                 *)

\* lines 16-27: every Paper tag becomes its paperTitle
RECURSIVE md_sub_paper_from(_, _)
md_sub_paper_from(s, i) ==
    LET at == {k \in i..Len(s) : paper_match_at(s, k)[1]}
        k == CHOOSE x \in at : \A y \in at : x <= y
        m == paper_match_at(s, k)
    IN IF at = {} THEN SubSeq(s, i, Len(s))
       ELSE SubSeq(s, i, k - 1) \o m[2] \o md_sub_paper_from(s, m[3])

md_convert_inline_citations(text) == md_sub_paper_from(text, 1)

\* lines 135-154, for a loop that raises nothing
RECURSIVE md_sections(_)
md_sections(sections) ==
    IF sections = << >> THEN ""
    ELSE LET section == Head(sections).value
             tldr == dget(section, "tldr", "")
             text == dget(section, "text", PyObject("str", ""))
         IN "## " \o dget(section, "title", "Untitled Section") \o "\n\n"
            \o (IF tldr # "" THEN "**TL;DR:** " \o tldr \o "\n\n" ELSE "")
            \o (IF truthy(text)
                THEN md_convert_inline_citations(md_convert_model_tags(text.value)) \o "\n\n"
                ELSE "")
            \o md_sections(Tail(sections))

\* line 65: ', '.join of the names of the authors
RECURSIVE join_author_names(_)
join_author_names(authors) ==
    IF authors = << >> THEN ""
    ELSE dget(Head(authors), "name", "")
         \o (IF Len(authors) > 1 THEN ", " ELSE "") \o join_author_names(Tail(authors))

\* lines 82-87: the excerpts from the i-th on, numbered from 1
RECURSIVE key_excerpts_from(_, _)
key_excerpts_from(snippets, i) ==
    IF i > Len(snippets) THEN ""
    ELSE str_nat(i) \o ". "
         \o (IF Len(snippets[i]) > 500 THEN SubSeq(snippets[i], 1, 500) \o "..."
             ELSE snippets[i])
         \o "\n\n" \o key_excerpts_from(snippets, i + 1)

\* lines 52-89: the entry of one citation; the corpus id is a str and the
\* number of citations an int
reference_entry(citation_id, citation) ==
    LET paper == dget(citation, "paper", NoField)
        venue == dget(paper, "venue", "")
        corpus_id == dget(paper, "corpusId", "")
        n_citations == dget(paper, "nCitations", 0)
        authors == dget(paper, "authors", << >>)
        snippets == dget(citation, "snippets", << >>)
    IN "### " \o citation_id \o "\n\n"
       \o (IF authors # << >> THEN join_author_names(authors) ELSE "Unknown Authors")
       \o " (" \o dget(paper, "year", "Unknown Year") \o "). *"
       \o dget(paper, "title", "Unknown Title") \o "*"
       \o (IF venue # "" THEN ". " \o venue ELSE "") \o ".\n\n"
       \o (IF corpus_id # "" THEN "- **Corpus ID:** " \o corpus_id \o "\n" ELSE "")
       \o (IF n_citations # 0 THEN "- **Citations:** " \o str_nat(n_citations) \o "\n" ELSE "")
       \o (IF snippets # << >>
           THEN "\n**Key Excerpts:**\n\n" \o key_excerpts_from(snippets, 1) ELSE "")
       \o "---\n\n"

\* lines 51-89
RECURSIVE reference_entries(_, _)
reference_entries(ids, all_citations) ==
    IF ids = << >> THEN ""
    ELSE reference_entry(Head(ids), all_citations[Head(ids)])
         \o reference_entries(Tail(ids), all_citations)

\* lines 36-91
build_references_section(sections) ==
    LET all_citations == all_citations_from(sections, << >>, NoField)
    IN IF DOMAIN all_citations = {} THEN ""
       ELSE "\n## References\n\n"
            \o reference_entries(sorted(DOMAIN all_citations), all_citations)

\* lines 109-157: md_content, when nothing raises
md_content(json_file_path, data) ==
    LET query == dget(data.value, "query", "")
        sections == dget(data.value, "sections", PyObject("list", << >>))
    IN "---\n"
       \o "title: \"ASTRA " \o dget(data.value, "type", "Report") \o ": "
       \o (IF query # "" THEN query ELSE "Research Report") \o "\"\n"
       \o "format: pdf\n---\n\n"
       \o "**Report ID:** " \o dget(data.value, "id", "Unknown") \o "\n\n"
       \o generated_line(json_file_path)
       \o (IF query # "" THEN "**Research Question:** " \o query \o "\n\n" ELSE "")
       \o "---\n\n"
       \o md_sections(sections.value)
       \o build_references_section(sections.value)

\* lines 94-162.  [raises, error, content, markdown_file]
convert_json_to_markdown(files, json_file_path) ==
    LET text == read_text(files, json_file_path)
    IN IF convert_error(text) # ""
       THEN [raises |-> TRUE, error |-> convert_error(text), content |-> "", markdown_file |-> ""]
       ELSE [raises |-> FALSE, error |-> "",
             content |-> md_content(json_file_path, json_load(text)),
             markdown_file |-> splitext_root(json_file_path) \o ".md"]

----------------------------------------------------------------------------
(* cli.py: the three commands.  The pictographs that open some messages    *)
(* are left out of the printed text, and the traceback that --verbose      *)
(* sends to stderr is not modelled.                                        *)

\* lines 17-19, 76-78, 103-105 without the print
not_found_silent(file) == << >>

\* lines 17-19, 76-78, 103-105: the message of the missing input file
not_found(file) == << "Error: File " \o file \o " not found" >>

\* lines 25-35: what the bibliography check prints after check_bib_file
no_bib_dialogue(bib_file) ==
    IF bib_file # "" \/ args.no_bib THEN << >>
    ELSE IF stdin_isatty
    THEN << "\nContinue without bibliography file? (y/n): " >>
    ELSE << "Continuing without bibliography file (non-interactive mode)",
            "   Citations will not render correctly" >>

\* lines 37-69: the conversion, after the bibliography check
qmd_try(checked, checking, conv) ==
    IF conv.raises
    THEN /\ stdout' = checking \o conv.out \o << "Error converting file: " \o conv.error >>
         /\ cli_ret' = 1
         /\ fs' = conv.files
    ELSE IF write_raises(conv.qmd_file)
    THEN /\ fs' = write_text(conv.files, conv.qmd_file, conv.content)
         /\ stdout' = checking \o conv.out
              \o << "Error converting file: " \o write_error(conv.qmd_file) >>
         /\ cli_ret' = 1
    ELSE /\ fs' = write_text(conv.files, conv.qmd_file, conv.content)
         /\ stdout' = checking \o conv.out
              \o << "Successfully converted to " \o basename(conv.qmd_file) >>
              \o (IF checked[1] # ""
                  THEN << "Bibliography linked: " \o basename(checked[1]),
                          "Citation style: " \o conv.csl_filename,
                          "\nYou can now render with: quarto render " \o conv.qmd_file >>
                  ELSE << "\nWarning: No bibliography file found",
                          "   Citations will not render correctly without a .bib file" >>)
         /\ cli_ret' = 0

\* line 29 with response != 'y'
declines_cased(response) == response # "y"

\* line 29: the answer that cancels the conversion
declines(response) == lower(response) # "y"

\* lines 21-69 for a run that does not wait for an answer: the command,
\* from the bibliography check on
qmd_checked(checked) ==
    qmd_try(checked,
        << "Checking for bibliography file..." >> \o checked[2]
            \o no_bib_dialogue(checked[1])
            \o << "\nConverting " \o basename(args.json_file) \o " to Quarto markdown..." >>,
        convert_json_to_qmd(fs, args.json_file, checked[1], args.csl_file))

\* lines 25-28: the command prompts and waits for the answer
prompts(checked) == checked[1] = "" /\ ~args.no_bib /\ stdin_isatty

\* lines 25-69, up to input() of line 28 in a run that prompts
qmd_prompt_or_convert(checked) ==
    IF prompts(checked)
    THEN /\ stdout' = << "Checking for bibliography file..." >> \o checked[2]
              \o no_bib_dialogue("")
         /\ cli_bib_file' = ""
         /\ cli_pc' = "input"
         /\ UNCHANGED << fs, cli_ret >>
    ELSE /\ qmd_checked(checked)
         /\ cli_bib_file' = checked[1]
         /\ cli_pc' = "exit"

\* lines 13-69, up to input() of line 28 in a run that prompts
CmdJsonToQmd ==
    /\ cli_pc = "start" /\ args.command = "json-to-qmd"
    /\ IF ~path_exists(fs, args.json_file)
       THEN /\ stdout' = not_found(args.json_file)
            /\ cli_ret' = 1
            /\ cli_pc' = "exit"
            /\ UNCHANGED << fs, cli_bib_file >>
       ELSE qmd_prompt_or_convert(check_bib_file(fs, args.json_file))
    /\ UNCHANGED << fs0, fault, dir_order, args, stdin_isatty, stdin_line, original_content,
                    key_vars, bib_vars, cite_vars, strip_vars >>

\* the bibliography the user saves
BibGood ==
    " % note \n@string{x = y}\n"
    \o "@article{smith2020paper,\n  author = {Smith, John},\n  year = {2020},\n  title = {Deep Nets}\n}\n"
    \o "@a{k1,author={Smith, J},year={2020},title={Deep Nets}}\n"

\* the path check_bib_file tries first, which the warning names
expected_bib_file == splitext_root(args.json_file) \o ".bib"

\* while input() of line 28 waits, the user does what the warning of
\* json_to_qmd.py lines 122-127 asks for: the bibliography file is saved
\* under the expected name
SaveBibFile ==
    /\ cli_pc = "input" /\ ~path_exists(fs, expected_bib_file)
    /\ fs' = write_file(fs, expected_bib_file, BibGood)
    /\ fs0' = write_file(fs0, expected_bib_file, BibGood)
    /\ UNCHANGED << fault, dir_order, cli_bib_file, args, stdin_isatty, stdin_line, stdout,
                    original_content, cli_pc, cli_ret,
                    key_vars, bib_vars, cite_vars, strip_vars >>

\* lines 28-69: input() returns the line typed
ReadResponse ==
    /\ cli_pc = "input"
    /\ IF declines(stdin_line)
       THEN /\ stdout' = stdout
                 \o << "Conversion cancelled. Please download the .bib file first." >>
            /\ cli_ret' = 1
            /\ UNCHANGED fs
       ELSE qmd_try(<< cli_bib_file, << >> >>,
                stdout \o << "\nConverting " \o basename(args.json_file)
                                \o " to Quarto markdown..." >>,
                convert_json_to_qmd(fs, args.json_file, cli_bib_file, args.csl_file))
    /\ cli_pc' = "exit"
    /\ UNCHANGED << fs0, fault, dir_order, cli_bib_file, args, stdin_isatty, stdin_line,
                    original_content, key_vars, bib_vars, cite_vars, strip_vars >>

\* lines 80-96
md_try(converting, conv) ==
    IF conv.raises
    THEN /\ stdout' = converting \o << "Error converting file: " \o conv.error >>
         /\ cli_ret' = 1
         /\ UNCHANGED fs
    ELSE IF write_raises(conv.markdown_file)
    THEN /\ fs' = write_text(fs, conv.markdown_file, conv.content)
         /\ stdout' = converting
              \o << "Error converting file: " \o write_error(conv.markdown_file) >>
         /\ cli_ret' = 1
    ELSE /\ fs' = write_text(fs, conv.markdown_file, conv.content)
         /\ stdout' = converting
              \o << "Successfully converted to " \o basename(conv.markdown_file) >>
         /\ cli_ret' = 0

\* lines 72-96
CmdJsonToMd ==
    /\ cli_pc = "start" /\ args.command = "json-to-md"
    /\ IF ~path_exists(fs, args.json_file)
       THEN /\ stdout' = not_found(args.json_file)
            /\ cli_ret' = 1
            /\ UNCHANGED fs
       ELSE md_try(<< "Converting " \o basename(args.json_file) \o " to markdown..." >>,
                   convert_json_to_markdown(fs, args.json_file))
    /\ cli_pc' = "exit"
    /\ UNCHANGED << fs0, fault, dir_order, cli_bib_file, args, stdin_isatty, stdin_line, original_content,
                    key_vars, bib_vars, cite_vars, strip_vars >>

\* lines 99-115: the file is read and regenerate_bib_keys is called
CmdRegenerateBib ==
    /\ cli_pc = "start" /\ args.command = "regenerate-bib"
    /\ IF ~path_exists(fs, args.bib_file)
       THEN /\ stdout' = not_found(args.bib_file)
            /\ cli_ret' = 1
            /\ cli_pc' = "exit"
            /\ UNCHANGED << original_content, bib_vars >>
       ELSE /\ original_content' = read_text(fs, args.bib_file)
            /\ stdout' = << "Reading " \o basename(args.bib_file) \o "..." >>
            /\ bib_content' = read_text(fs, args.bib_file)
            /\ b_pc' = "call"
            /\ cli_pc' = "regenerate"
            /\ UNCHANGED << cli_ret, entries, b_i, new_content, key_mapping, b_log, b_pass >>
    /\ UNCHANGED << fs0, fault, dir_order, cli_bib_file, fs, args, stdin_isatty, stdin_line, key_vars, cite_vars, strip_vars >>

\* s.ljust(n), what the format {s:30} does to a str
RECURSIVE ljust(_, _)
ljust(s, n) == IF Len(s) >= n THEN s ELSE ljust(s \o " ", n)

\* lines 122-124, 153-154: one line for each pair of sorted(key_mapping.items())
RECURSIVE mapping_lines(_, _, _)
mapping_lines(old_keys, indent, changed_only) ==
    IF old_keys = << >> THEN << >>
    ELSE (IF changed_only /\ Head(old_keys) = key_mapping[Head(old_keys)] THEN << >>
          ELSE << indent \o ljust(Head(old_keys), 30) \o " -> " \o key_mapping[Head(old_keys)] >>)
         \o mapping_lines(Tail(old_keys), indent, changed_only)

\* lines 117-124
regenerated_report ==
    << "Regenerated " \o str_nat(Cardinality(DOMAIN key_mapping)) \o " citation keys" >>
    \o (IF args.show_mapping \/ args.verbose
        THEN << "\nKey mappings:" >> \o mapping_lines(sorted(DOMAIN key_mapping), "   ", TRUE)
        ELSE << >>)

\* str(e) of the exception regenerate_bib_keys raised in the entry b_i
regenerate_error ==
    IF generate_citation_key_raises(parse_fields(entry)) THEN "list index out of range"
    ELSE "invalid group reference 1" \o Ch(key_mapping[old_key_of(entry)], 1) \o " at position 1"

\* lines 160-165
RegenerateExcept ==
    /\ cli_pc = "regenerate" /\ b_pc = "raised"
    /\ stdout' = stdout \o << "Error processing file: " \o regenerate_error >>
    /\ cli_ret' = 1
    /\ cli_pc' = "exit"
    /\ UNCHANGED << fs0, fault, dir_order, cli_bib_file, fs, args, stdin_isatty, stdin_line, original_content,
                    key_vars, bib_vars, cite_vars, strip_vars >>

\* lines 160-165, for the OSError of a write
write_except ==
    /\ cli_ret' = 1
    /\ cli_pc' = "exit"

\* lines 117-132: the report, then the backup of --inplace
WriteBackup ==
    /\ cli_pc = "regenerate" /\ b_pc = "return" /\ args.inplace
    /\ fs' = write_text(fs, args.bib_file \o ".backup", original_content)
    /\ IF write_raises(args.bib_file \o ".backup")
       THEN /\ stdout' = stdout \o regenerated_report
                  \o << "Error processing file: " \o write_error(args.bib_file \o ".backup") >>
            /\ write_except
       ELSE /\ stdout' = stdout \o regenerated_report
                  \o << "\nBacked up original to " \o basename(args.bib_file \o ".backup") >>
            /\ cli_pc' = "overwrite"
            /\ UNCHANGED cli_ret
    /\ UNCHANGED << fs0, fault, dir_order, cli_bib_file, args, stdin_isatty, stdin_line, original_content,
                    key_vars, bib_vars, cite_vars, strip_vars >>

\* lines 135-137
OverwriteInPlace ==
    /\ cli_pc = "overwrite"
    /\ fs' = write_text(fs, args.bib_file, new_content)
    /\ IF write_raises(args.bib_file)
       THEN /\ stdout' = stdout \o << "Error processing file: " \o write_error(args.bib_file) >>
            /\ write_except
       ELSE /\ stdout' = stdout \o << "Updated " \o basename(args.bib_file) \o " in place" >>
            /\ cli_pc' = "mapping"
            /\ UNCHANGED cli_ret
    /\ UNCHANGED << fs0, fault, dir_order, cli_bib_file, args, stdin_isatty, stdin_line, original_content,
                    key_vars, bib_vars, cite_vars, strip_vars >>

\* lines 117-124, 139-145: the report, then the new file
WriteNewFile ==
    /\ cli_pc = "regenerate" /\ b_pc = "return" /\ ~args.inplace
    /\ LET output_file == splitext_root(args.bib_file) \o ".new.bib"
       IN /\ fs' = write_text(fs, output_file, new_content)
          /\ IF write_raises(output_file)
             THEN /\ stdout' = stdout \o regenerated_report
                        \o << "Error processing file: " \o write_error(output_file) >>
                  /\ write_except
             ELSE /\ stdout' = stdout \o regenerated_report
                        \o << "\nCreated new file: " \o basename(output_file),
                              "   Review and rename to replace original if satisfied" >>
                  /\ cli_pc' = "mapping"
                  /\ UNCHANGED cli_ret
    /\ UNCHANGED << fs0, fault, dir_order, cli_bib_file, args, stdin_isatty, stdin_line, original_content,
                    key_vars, bib_vars, cite_vars, strip_vars >>

\* "=" * 70
RuleLine == "======================================================================"

\* lines 147-158
SaveMapping ==
    /\ cli_pc = "mapping"
    /\ LET mapping_file == splitext_root(args.bib_file) \o "_key_mapping.txt"
           lines == mapping_lines(sorted(DOMAIN key_mapping), "", FALSE)
       IN IF args.save_mapping
          THEN /\ fs' = write_text(fs, mapping_file,
                            "Old Key -> New Key\n" \o RuleLine \o "\n"
                            \o concat([i \in DOMAIN lines |-> lines[i] \o "\n"]))
               /\ IF write_raises(mapping_file)
                  THEN /\ stdout' = stdout
                             \o << "Error processing file: " \o write_error(mapping_file) >>
                       /\ cli_ret' = 1
                  ELSE /\ stdout' = stdout
                             \o << "Key mapping saved to: " \o basename(mapping_file) >>
                       /\ cli_ret' = 0
          ELSE /\ cli_ret' = 0
               /\ UNCHANGED << fs, stdout >>
    /\ cli_pc' = "exit"
    /\ UNCHANGED << fs0, fault, dir_order, cli_bib_file, args, stdin_isatty, stdin_line, original_content,
                    key_vars, bib_vars, cite_vars, strip_vars >>

\* the files of a run: pairs << path, text >>
files_of(pairs) ==
    [p \in {x[1] : x \in pairs} |-> (CHOOSE x \in pairs : x[1] = p)[2]]

BibRaising == "@a{k2,author={Li},year={2020}}\n@a{k3,author={ },year={1999}}"
BibCrLf == "@a{k1,author={Li},year={2020},title={Deep}}\r\n"
CslText == "<style/>"

\* the style files: the bundled one, the one beside the document, --csl-file
CslSetups ==
    { [files |-> {<< BundledCsl, CslText >>}, csl_file |-> ""],
      [files |-> {<< BundledCsl, CslText >>, << "apa.csl", CslText >>}, csl_file |-> ""],
      [files |-> {<< BundledCsl, CslText >>, << "apa.csl", "<old/>" >>}, csl_file |-> ""],
      [files |-> {}, csl_file |-> ""],
      [files |-> {<< BundledCsl, CslText >>, << "my.csl", "<mine/>" >>}, csl_file |-> "my.csl"],
      [files |-> {<< BundledCsl, CslText >>}, csl_file |-> "my.csl"] }

JsonNames == {"2024-01-15.json", "r.json"}
JsonSetups(name) ==
    {{}} \cup {{<< name, text >>} : text \in JsonTexts}
BibSetups(name) ==
    { {}, {<< splitext_root(name) \o ".bib", BibGood >>} }
    \cup (IF name = "2024-01-15.json" THEN {{<< "2024-01_15.bib", BibGood >>}} ELSE {})

Terminals ==
    { << FALSE, "" >>, << TRUE, "y" >>, << TRUE, "Y" >>, << TRUE, "n" >>, << TRUE, "" >> }

NoFlags ==
    [no_bib |-> FALSE, csl_file |-> "", inplace |-> FALSE, show_mapping |-> FALSE,
     save_mapping |-> FALSE, verbose |-> FALSE, json_file |-> "", bib_file |-> ""]

\* the runs: no write fails, or the write of one of the files does
MaxWritten == 5
Faults(paths) ==
    {NoFault} \cup {[path |-> p, at |-> "open", written |-> 0] : p \in paths}
    \cup {[path |-> p, at |-> "write", written |-> n] : p \in paths, n \in {0, MaxWritten}}

set(k, v, d) == [x \in DOMAIN d \cup {k} |-> IF x = k THEN v ELSE d[x]]

InitQmd ==
    \E name \in JsonNames, csl \in CslSetups, no_bib \in BOOLEAN, t \in Terminals :
        \E json \in JsonSetups(name), bib \in BibSetups(name) :
            /\ args = set("command", "json-to-qmd", set("json_file", name,
                        set("no_bib", no_bib, set("csl_file", csl.csl_file, NoFlags))))
            /\ fs = files_of(json \cup bib \cup csl.files)
            /\ stdin_isatty = t[1] /\ stdin_line = t[2]
            /\ fault \in Faults({splitext_root(name) \o ".qmd"})
            /\ dir_order = << >>

\* the documents in a directory that is named, with the bibliography files
\* beside them (pre is "d/" or "")
DirNames == {"d/r.json", "./r.json"}
DirBibNames ==
    { {}, {"x.bib"}, {"x.bib", "r2.bib"}, {"x.bib", "y.bib"}, {"r.new.bib"},
      {"r.new.bib", "x.bib"}, {"r1.bib", "r2.bib"}, {".bib"}, {"x.bib.backup"} }
DirBibSetups(pre) ==
    {{<< pre \o n, BibGood >> : n \in names} : names \in DirBibNames}
    \cup {{<< "e/x.bib", BibGood >>}, {<< "x.bib", BibGood >>}}

\* the orders in which a directory can list the files S
orders(S) ==
    {q \in [1..Cardinality(S) -> S] : \A i, j \in 1..Cardinality(S) : q[i] = q[j] => i = j}

InitQmdDir ==
    \E name \in DirNames, no_bib \in BOOLEAN, t \in Terminals :
        \E json \in {JsonFull, JsonCited},
           bib \in DirBibSetups(IF name = "d/r.json" THEN "d/" ELSE "") :
            /\ args = set("command", "json-to-qmd", set("json_file", name,
                        set("no_bib", no_bib, NoFlags)))
            /\ fs = files_of({<< norm_path(name), json >>, << BundledCsl, CslText >>} \cup bib)
            /\ stdin_isatty = t[1] /\ stdin_line = t[2]
            /\ fault = NoFault
            /\ dir_order \in orders({x[1] : x \in bib})

InitMd ==
    \E name \in JsonNames, verbose \in BOOLEAN :
        \E json \in JsonSetups(name) :
            /\ args = set("command", "json-to-md", set("json_file", name,
                        set("verbose", verbose, NoFlags)))
            /\ fs = files_of(json \cup {<< "r.md", "old" >>})
            /\ stdin_isatty = FALSE /\ stdin_line = ""
            /\ fault \in Faults({splitext_root(name) \o ".md"})
            /\ dir_order = << >>

InitRegenerate ==
    \E inplace \in BOOLEAN, show_mapping \in BOOLEAN, save_mapping \in BOOLEAN,
       verbose \in BOOLEAN,
       bib \in {{}, {<< "r.bib", BibGood >>}, {<< "r.bib", BibRaising >>}, {<< "r.bib", BibCrLf >>}} :
        /\ args = set("command", "regenerate-bib", set("bib_file", "r.bib",
                    set("inplace", inplace, set("show_mapping", show_mapping,
                    set("save_mapping", save_mapping, set("verbose", verbose, NoFlags))))))
        /\ fs = files_of(bib \cup {<< "r.new.bib", "old" >>})
        /\ stdin_isatty = FALSE /\ stdin_line = ""
        /\ fault \in Faults({"r.bib.backup", "r.bib", "r.new.bib", "r_key_mapping.txt"})
        /\ dir_order = << >>

InitCli ==
    /\ KeyIdle /\ BibIdle /\ CiteIdle /\ StripIdle
    /\ (InitQmd \/ InitQmdDir \/ InitMd \/ InitRegenerate)
    /\ fs0 = fs /\ cli_bib_file = ""
    /\ stdout = << >> /\ original_content = "" /\ cli_pc = "start" /\ cli_ret = 0

\* regenerate_bib_keys runs where cmd_regenerate_bib called it
NextCli ==
    \/ CmdJsonToQmd
    \/ SaveBibFile
    \/ ReadResponse
    \/ CmdJsonToMd
    \/ CmdRegenerateBib
    \/ NextBib
    \/ RegenerateExcept
    \/ WriteBackup
    \/ OverwriteInPlace
    \/ WriteNewFile
    \/ SaveMapping

SpecCli == InitCli /\ [][NextCli]_vars

----------------------------------------------------------------------------
(* Claims on the key generator (specification SpecKey).                    *)

C5_Words == title_tokens(get(k_fields, "title"))
C5_Substantial ==
    LET idx == {i \in 1..Len(C5_Words) :
                    Len(C5_Words[i]) > 2 /\ lower(C5_Words[i]) \notin SKIP_WORDS}
    IN SelectSeq([i \in 1..Len(C5_Words) |-> IF i \in idx THEN C5_Words[i] ELSE ""],
                 LAMBDA w : w # "")
C5_First3(words) == concat(SubSeq(words, 1, IF Len(words) < 3 THEN Len(words) ELSE 3))

\* C5 as stated: the title component is made of the first 3 substantial
\* tokens, and of the first 3 raw tokens whenever fewer than 3 substantial
\* tokens remain (letter case aside); an empty title gives NoTitle.
C5_FallbackBelowThree ==
    k_pc = "return" =>
        IF get(k_fields, "title") = "" THEN k_title = "NoTitle"
        ELSE lower(k_title) =
                lower(C5_First3(IF Len(C5_Substantial) < 3 THEN C5_Words ELSE C5_Substantial))

\* C5 amended: the title component is made of the first 3 substantial tokens
\* (all of them when there are one or two), and of the first 3 raw tokens
\* only when no substantial token remains; an empty title gives NoTitle.
C5_FallbackOnlyWhenNone ==
    k_pc = "return" =>
        IF get(k_fields, "title") = "" THEN k_title = "NoTitle"
        ELSE lower(k_title) =
                lower(C5_First3(IF Len(C5_Substantial) = 0 THEN C5_Words ELSE C5_Substantial))

\* a title with one or two substantial tokens after a stop word
C5_Witness ==
    /\ k_pc = "return"
    /\ Len(C5_Substantial) \in {1, 2}
    /\ Len(C5_Words) >= 3
    /\ ~is_substantial(C5_Words[1])
    /\ lower(k_title) = lower(concat(C5_Substantial))

C6_FirstUpper(s) == IF s = "" THEN "" ELSE upper_char(Head(s)) \o Tail(s)

RECURSIVE C6_FirstUpperEach(_)
C6_FirstUpperEach(words) ==
    IF words = << >> THEN ""
    ELSE C6_FirstUpper(Head(words)) \o C6_FirstUpperEach(Tail(words))

\* C6: capitalization changes only the first character of the last name and
\* of every title token used: the following characters keep their case.
C6_OnlyFirstCharChanges ==
    k_pc = "return" =>
        /\ get(k_fields, "author") # ""
                => k_author = C6_FirstUpper(lastname_of(get(k_fields, "author")))
        /\ get(k_fields, "title") # ""
                => k_title = C6_FirstUpperEach(title_words_used(C5_Words, N_WORDS))

C7_Author == strip(remove_chars(get(k_fields, "author"), {"{", "}"}))

\* a conjunction (whitespace, "and" in any case, whitespace) starts at i
C7_ConjAt(s, i) ==
    \E j \in (i + 1)..Len(s) :
        /\ \A k \in i..(j - 1) : Ch(s, k) \in WhiteChars
        /\ j + 3 <= Len(s)
        /\ SubSeq(s, j, j + 2) \in {x \o y \o z : x \in {"a", "A"}, y \in {"n", "N"}, z \in {"d", "D"}}
        /\ Ch(s, j + 3) \in WhiteChars

C7_IsFirstAuthor(s, f) ==
    \/ f = strip(s) /\ \A i \in 1..Len(s) : ~C7_ConjAt(s, i)
    \/ \E i \in 1..Len(s) :
          /\ C7_ConjAt(s, i)
          /\ \A h \in 1..(i - 1) : ~C7_ConjAt(s, h)
          /\ f = strip(SubSeq(s, 1, i - 1))

\* component is made of the last name of the first author f
C7_LastNameGives(f, component) ==
    IF \E i \in 1..Len(f) : Ch(f, i) = ","
    THEN \E i \in 1..Len(f) :
            /\ Ch(f, i) = ","
            /\ \A h \in 1..(i - 1) : Ch(f, h) # ","
            /\ component = capitalize(keep_chars(SubSeq(f, 1, i - 1), WordChars))
    ELSE \E i \in 1..Len(f) :
            /\ \A h \in i..Len(f) : Ch(f, h) \notin WhiteChars
            /\ i > 1 => Ch(f, i - 1) \in WhiteChars
            /\ component = capitalize(keep_chars(SubSeq(f, i, Len(f)), WordChars))

\* C7: the author component is "Unknown" for an absent or empty author
\* field; otherwise it is made (non-word characters dropped, capitalized) of
\* the first author's last name: of the text before the first comma of the
\* first of the authors that "and" in any letter case separates, or of that
\* author's final whitespace-delimited token when it holds no comma.  The
\* specification's example gives Yancosek2024BeaconBayesianEvolutionary.
C7_AuthorComponent ==
    k_pc = "return" =>
        /\ get(k_fields, "author") = "" => k_author = "Unknown"
        /\ get(k_fields, "author") # "" =>
              \E i \in 0..Len(C7_Author) :
                  /\ C7_IsFirstAuthor(C7_Author, strip(SubSeq(C7_Author, 1, i)))
                  /\ C7_LastNameGives(strip(SubSeq(C7_Author, 1, i)), k_author)
        /\ k_fields = [author |-> "Yancosek, Amy", year |-> "2024",
                       title |-> "A Beacon: Bayesian Evolutionary Study"]
              => k_key = "Yancosek2024BeaconBayesianEvolutionary"

\* a first author without comma, the second one behind an upper-case AND
C7_Witness ==
    /\ k_pc = "return"
    /\ get(k_fields, "author") = "John McDonald\nAND  Yancosek, Amy"
    /\ k_author = "Mcdonald"

----------------------------------------------------------------------------
(* Claims on regenerate_bib_keys (specification SpecBib).                  *)

Rewritten == {i \in DOMAIN b_log : b_log[i].kind = "rewritten"}
Kept == {i \in DOMAIN b_log : b_log[i].kind \in {"preamble", "unparseable"}}

\* C1: the keys one call writes into the rewritten entries are pairwise
\* distinct, whatever the fields and the original keys of the entries.
C1_KeysPairwiseDistinct ==
    \A i \in Rewritten, j \in Rewritten :
        i # j => b_log[i].new_key # b_log[j].new_key

C2_EarlierKeys(j) == {b_log[i].new_key : i \in {h \in Rewritten : h < j}}
C2_Suffixed(key, n) == key \o "_" \o str_nat(n)

\* C2: the first entry with candidate K keeps K; a later entry with
\* candidate K gets K_n, n the smallest positive integer such that K_n was
\* not assigned to an earlier entry of the batch.
C2_SmallestFreeSuffix ==
    \A j \in Rewritten :
        IF \A i \in Rewritten : i < j => b_log[i].base_key # b_log[j].base_key
        THEN b_log[j].new_key = b_log[j].base_key
        ELSE \E n \in 1..Len(b_log) :
                /\ b_log[j].new_key = C2_Suffixed(b_log[j].base_key, n)
                /\ C2_Suffixed(b_log[j].base_key, n) \notin C2_EarlierKeys(j)
                /\ \A m \in 1..(n - 1) :
                        C2_Suffixed(b_log[j].base_key, m) \in C2_EarlierKeys(j)

C8_NoMappingFromKept ==
    b_pc \in {"loop", "return"} =>
        DOMAIN key_mapping = {b_log[i].old_key : i \in Rewritten}

\* C8 as stated: a fragment that is not of the @type{key, ...} shape, and the
\* preamble, is written to the output exactly as it is in the input, no
\* character added, removed or changed, and adds nothing to the mapping.
C8_KeptVerbatim ==
    /\ \A i \in Kept : b_log[i].out = b_log[i].raw
    /\ C8_NoMappingFromKept

\* core is text without its leading and trailing whitespace
C8_IsTrimmed(text, core) ==
    \E a \in 1..(Len(text) + 1), b \in 0..Len(text) :
        /\ core = SubSeq(text, a, b)
        /\ \A k \in 1..(a - 1) : Ch(text, k) \in WhiteChars
        /\ \A k \in (b + 1)..Len(text) : Ch(text, k) \in WhiteChars
        /\ a <= b => Ch(text, a) \notin WhiteChars /\ Ch(text, b) \notin WhiteChars

\* C8 amended: such a fragment is written to the output with its leading and
\* trailing whitespace removed and two line breaks after it, every other
\* character unchanged (a fragment of whitespace only is dropped), and adds
\* nothing to the mapping.
C8_KeptTrimmed ==
    /\ \A i \in Kept :
          \/ b_log[i].out = "" /\ C8_IsTrimmed(b_log[i].raw, "")
          \/ /\ Len(b_log[i].out) > 2
             /\ SubSeq(b_log[i].out, Len(b_log[i].out) - 1, Len(b_log[i].out)) = "\n\n"
             /\ C8_IsTrimmed(b_log[i].raw, SubSeq(b_log[i].out, 1, Len(b_log[i].out) - 2))
    /\ C8_NoMappingFromKept
    /\ b_pc = "return" => new_content = concat([i \in DOMAIN b_log |-> b_log[i].out])

\* a preamble and an unparseable entry, both with whitespace around them,
\* were written, and the call returned
C8_Witness ==
    /\ b_pc = "return"
    /\ \E i \in Kept : b_log[i].kind = "preamble" /\ b_log[i].out = "% note\n\n"
    /\ \E i \in Kept : b_log[i].kind = "unparseable" /\ b_log[i].out # b_log[i].raw
    /\ Rewritten # {}

----------------------------------------------------------------------------
(* Claims on the citation resolver (specification SpecCite).               *)

CiteEntries == re_split_entries(c_bib)
Resolved(cite_key) == c_out = CiteBefore \o "[@" \o cite_key \o "]" \o CiteAfter

\* the six forms of a last name and a year
C3_SixForms(L, Y) ==
    { L \o Y, L \o "etal" \o Y, "(" \o L \o " et al., " \o Y \o ")",
      "(" \o L \o ", " \o Y \o ")", L \o " et al., " \o Y, L \o ", " \o Y }

\* the marker equals a form of the entry, ignoring letter case and
\* surrounding whitespace
C3_MarkerIsFormOf(entry_text) ==
    \E f \in C3_SixForms(cite_last_of(entry_text), cite_year_of(entry_text)) :
        lower(strip(c_marker)) = lower(f)

C3_LaterSameNameAndYear(i) ==
    \E j \in (i + 1)..Len(CiteEntries) :
        /\ is_indexed(CiteEntries[j])
        /\ lower(cite_last_of(CiteEntries[j])) = lower(cite_last_of(CiteEntries[i]))
        /\ cite_year_of(CiteEntries[j]) = cite_year_of(CiteEntries[i])

C3_LaterSameForm(i) ==
    \E j \in (i + 1)..Len(CiteEntries) :
        is_indexed(CiteEntries[j]) /\ C3_MarkerIsFormOf(CiteEntries[j])

\* C3 as stated: a marker that is one of the six forms of an entry with key
\* K, last name L and year Y, no later entry having the same lowercased L
\* and Y, resolves to the reference token of K.
C3_ResolutionHit ==
    c_pc = "done" =>
        \A i \in DOMAIN CiteEntries :
            (/\ is_indexed(CiteEntries[i])
             /\ ~C3_LaterSameNameAndYear(i)
             /\ C3_MarkerIsFormOf(CiteEntries[i]))
            => Resolved(cite_key_of(CiteEntries[i]))

\* C3 amended: a marker that is one of the six forms of an entry with key K,
\* and of no later entry, resolves to the reference token of K.
C3_ResolutionHitLastForm ==
    c_pc = "done" =>
        \A i \in DOMAIN CiteEntries :
            (/\ is_indexed(CiteEntries[i])
             /\ ~C3_LaterSameForm(i)
             /\ C3_MarkerIsFormOf(CiteEntries[i]))
            => Resolved(cite_key_of(CiteEntries[i]))

C3_Witness ==
    /\ c_pc = "done"
    /\ c_marker = "(Smith et al., 2020)"
    /\ c_bib = "@article{smith2020paper,\n  author = {Smith, John},\n  year = {2020}\n}\n"
                \o "@misc{ doe19 ,author = \"Doe\",year = \"2019\"}\n\n"
    /\ Resolved("smith2020paper")

\* the four steps of the resolver, on the marker and the table
C4_Trimmed == strip(c_marker)
C4_Step1 == lower(C4_Trimmed)
C4_IsWrapped == Len(C4_Trimmed) >= 2 /\ Ch(C4_Trimmed, 1) = "(" /\ Ch(C4_Trimmed, Len(C4_Trimmed)) = ")"
C4_Unwrapped == strip(lower(SubSeq(C4_Trimmed, 2, Len(C4_Trimmed) - 1)))
C4_Unparenthesized == strip(lower(strip_chars(C4_Trimmed, {"(", ")"})))

\* the key between "[@" and "]" in the text the resolver returns
C4_Key == SubSeq(c_out, Len(CiteBefore) + 3, Len(c_out) - Len(CiteAfter) - 1)

\* the characters of the trimmed marker from i to j - 1 are a run, not
\* empty, of characters of chars
C4_IsRun(i, j, chars) ==
    /\ i < j /\ j <= Len(C4_Trimmed) + 1
    /\ \A k \in i..(j - 1) : Ch(C4_Trimmed, k) \in chars

\* where an "et al." that starts at a ends: whitespace, et, whitespace, al.
C4_EtAlEnds(a) ==
    { y + 3 : y \in { y \in a..Len(C4_Trimmed) :
        /\ Ch(C4_Trimmed, y) = "a" /\ Ch(C4_Trimmed, y + 1) = "l" /\ Ch(C4_Trimmed, y + 2) = "."
        /\ \E x \in a..y :
              /\ C4_IsRun(a, x, WhiteChars)
              /\ Ch(C4_Trimmed, x) = "e" /\ Ch(C4_Trimmed, x + 1) = "t"
              /\ C4_IsRun(x + 2, y, WhiteChars) } }

\* the keys Author+Year of step 3: the trimmed marker is, after at most one
\* opening parenthesis, a run of letters (Author), then an optional et al.,
\* an optional comma, whitespace and four digits (Year); what follows the
\* four digits is free
C4_AuthorYearKeys ==
    { SubSeq(C4_Trimmed, t[1], t[2] - 1) \o SubSeq(C4_Trimmed, t[3], t[3] + 3) :
      t \in { t \in {1, 2} \X (1..(Len(C4_Trimmed) + 1)) \X (1..Len(C4_Trimmed)) :
        /\ t[1] = 2 => Ch(C4_Trimmed, 1) = "("
        /\ C4_IsRun(t[1], t[2], AlphaChars)
        /\ \A k \in t[3]..(t[3] + 3) : Ch(C4_Trimmed, k) \in DigitChars
        /\ \E e \in {t[2]} \cup C4_EtAlEnds(t[2]) :
              \E c \in {e} \cup (IF Ch(C4_Trimmed, e) = "," THEN {e + 1} ELSE {}) :
                  C4_IsRun(c, t[3], WhiteChars) } }

\* key is the trimmed marker without the characters that are not in chars
C4_IsMarkerWithin(key, chars) ==
    LET kept == {k \in 1..Len(C4_Trimmed) : Ch(C4_Trimmed, k) \in chars}
    IN /\ Len(key) = Cardinality(kept)
       /\ \A k \in kept : Ch(key, Cardinality({j \in kept : j <= k})) = Ch(C4_Trimmed, k)

\* C4 as stated: the result is that of the first step that succeeds: the
\* table at the lowercased trimmed marker, the table at the marker without
\* a wrapping pair of parentheses, the synthesized Author+Year, the marker
\* without its non-alphanumeric characters.
C4_ResolutionOrder ==
    c_pc = "done" =>
        /\ Resolved(C4_Key)
        /\ IF C4_Step1 \in DOMAIN citation_mapping
           THEN C4_Key = citation_mapping[C4_Step1]
           ELSE IF C4_IsWrapped /\ C4_Unwrapped \in DOMAIN citation_mapping
           THEN C4_Key = citation_mapping[C4_Unwrapped]
           ELSE IF C4_AuthorYearKeys # {}
           THEN C4_Key \in C4_AuthorYearKeys
           ELSE C4_IsMarkerWithin(C4_Key, AlphaChars \cup DigitChars)

\* C4 amended: the second step looks up the marker without its leading and
\* trailing parentheses, however many and paired or not; the third step
\* wants whitespace before the four digits of the year; the fourth step
\* keeps the underscores with the letters and the digits.
C4_ResolutionOrderAsCoded ==
    c_pc = "done" =>
        /\ Resolved(C4_Key)
        /\ IF C4_Step1 \in DOMAIN citation_mapping
           THEN C4_Key = citation_mapping[C4_Step1]
           ELSE IF C4_Unparenthesized \in DOMAIN citation_mapping
           THEN C4_Key = citation_mapping[C4_Unparenthesized]
           ELSE IF C4_AuthorYearKeys # {}
           THEN C4_AuthorYearKeys = {C4_Key}
           ELSE C4_IsMarkerWithin(C4_Key, AlphaChars \cup DigitChars \cup {"_"})
        /\ (c_marker = "(Doe, 2019)" /\ "(doe, 2019)" \notin DOMAIN citation_mapping)
                => Resolved("Doe2019")

C4_Witness ==
    /\ c_pc = "done"
    /\ c_marker = "(Smith, 2020"
    /\ c_bib = "@article{smith2020paper,\n  author = {Smith, John},\n  year = {2020}\n}\n"
    /\ Resolved("smith2020paper")

----------------------------------------------------------------------------
(* Claims on convert_model_tags (specification SpecStrip).                 *)

\* C9: a second application of convert_model_tags returns the text the
\* first returned, in each converter.
C9_SecondPassChangesNothing ==
    Len(s_out) >= 2 => s_out[2] = s_out[1]

----------------------------------------------------------------------------
(* Claims on the commands (specification SpecCli).                         *)

C10_InputPath == IF args.command = "regenerate-bib" THEN args.bib_file ELSE args.json_file
C10_InputMissing == ~path_exists(fs0, C10_InputPath)

\* C10: a command whose input path does not exist never creates or changes
\* a file, and ends with the error reported and a non-zero exit status.
C10_MissingInputFile ==
    C10_InputMissing =>
        /\ fs = fs0
        /\ cli_pc \in {"start", "exit"}
        /\ cli_pc = "exit" =>
            /\ cli_ret # 0
            /\ stdout = << "Error: File " \o C10_InputPath \o " not found" >>

C10_Witness ==
    /\ cli_pc = "exit"
    /\ args.command = "regenerate-bib" /\ args.inplace /\ args.save_mapping
    /\ C10_InputMissing
    /\ "r.new.bib" \in DOMAIN fs0
    /\ fs = fs0 /\ cli_ret = 1 /\ stdout # << >>

----------------------------------------------------------------------------
(* Claims on the calls of generate_citation_key in one run of              *)
(* regenerate_bib_keys (specification SpecBib).                            *)

\* what line 155 passes to generate_citation_key in the iteration i
C12_Type(i) == entry_type_of(strip(b_log[i].raw))
C12_Fields(i) == parse_fields(strip(b_log[i].raw))
C12_Agree(f, g) ==
    \A name \in {"author", "year", "title"} : get(f, name) = get(g, name)

\* C12: two calls of generate_citation_key whose fields agree on author,
\* year and title return the same key, whatever the entry type, the
\* original key, the other fields and the entries processed before.
C12_SameFieldsSameKey ==
    \A i \in Rewritten, j \in Rewritten :
        C12_Agree(C12_Fields(i), C12_Fields(j)) => b_log[i].base_key = b_log[j].base_key

\* two calls that agree on the three fields and on nothing else: another
\* entry type, another original key, one more field, one entry processed
\* before the second call
C12_Witness ==
    \E i \in Rewritten, j \in Rewritten :
        /\ i < j
        /\ C12_Agree(C12_Fields(i), C12_Fields(j))
        /\ C12_Type(i) # C12_Type(j)
        /\ b_log[i].old_key # b_log[j].old_key
        /\ DOMAIN C12_Fields(i) # DOMAIN C12_Fields(j)
        /\ b_log[i].base_key = "Li2020Deep" /\ b_log[j].base_key = "Li2020Deep"
        /\ b_log[j].new_key = "Li2020Deep_1"

----------------------------------------------------------------------------
(* Claims on one application of convert_model_tags (specification          *)
(* SpecStrip).                                                             *)

\* t holds a Model opening or self-closing tag, or a Model closing tag
C13_HasMarker(t) ==
    \E k \in 1..Len(t) :
        \/ starts_at(t, k, "</Model>")
        \/ starts_at(t, k, "<Model") /\ \E j \in (k + 6)..Len(t) : Ch(t, j) = ">"

\* t is one marker around a content that holds no angle bracket
C13_IsOneMarker(t) ==
    /\ starts_at(t, 1, "<Model>") /\ starts_at(t, Len(t) - 7, "</Model>")
    /\ \A k \in 8..(Len(t) - 8) : Ch(t, k) \notin {"<", ">"}

\* C13: after stripping, the text holds no content marker and none of the
\* text a marker enclosed, whether that content is empty or not and on one
\* line or several, in both converters.
C13_RemovalComplete ==
    Len(s_out) >= 1 =>
        /\ ~C13_HasMarker(s_out[1])
        /\ C13_IsOneMarker(s_text) => s_out[1] = ""

\* the line breaks of t
C14_LineBreaks(t) == Cardinality({k \in 1..Len(t) : Ch(t, k) = "\n"})

\* t holds no marker and no part of one: all of it lies outside markers
C14_NoMarker(t) == \A k \in 1..Len(t) : Ch(t, k) \notin {"<", ">"}

\* C14: the Quarto stripper keeps every line break that lies outside a
\* removed marker; only runs of horizontal whitespace are collapsed and
\* only whitespace before . , ; : ! ? is removed.  For a text without
\* markers: the output has the line breaks of the input, and the same
\* characters other than whitespace.
C14_LineBreaksKept ==
    (s_conv = "qmd" /\ Len(s_out) >= 1 /\ C14_NoMarker(s_text)) =>
        /\ C14_LineBreaks(s_out[1]) = C14_LineBreaks(s_text)
        /\ remove_chars(s_out[1], WhiteChars) = remove_chars(s_text, WhiteChars)

\* C17: regenerate_bib_keys never raises: for every bibliography text the
\* call returns, an entry with a whitespace-only author field or with a
\* generated key that starts with a digit being rewritten or passed
\* through like any other.
C17_NeverRaises == b_pc # "raised"

----------------------------------------------------------------------------
(* Claims on a second call of regenerate_bib_keys (specification           *)
(* SpecTwice).                                                             *)

\* C18: regenerate_bib_keys called on the content it returned returns that
\* content unchanged, and a mapping in which every key maps to itself.
C18_Idempotent ==
    b_pass = 2 =>
        /\ b_pc # "raised"
        /\ b_pc = "return" =>
                /\ new_content = bib_content
                /\ \A k \in DOMAIN key_mapping : key_mapping[k] = k

----------------------------------------------------------------------------
(* Claims on the variant table (specification SpecCite).                   *)

\* the entries i and j have the same lowercased last name and the same year
C15_SameNameAndYear(i, j) ==
    /\ is_indexed(CiteEntries[i]) /\ is_indexed(CiteEntries[j])
    /\ lower(cite_last_of(CiteEntries[i])) = lower(cite_last_of(CiteEntries[j]))
    /\ cite_year_of(CiteEntries[i]) = cite_year_of(CiteEntries[j])

\* i is an earlier and j the last entry of one last name and year, under
\* two different keys
C15_Collide(i, j) ==
    /\ i < j /\ C15_SameNameAndYear(i, j)
    /\ \A k \in (j + 1)..Len(CiteEntries) : ~C15_SameNameAndYear(j, k)
    /\ cite_key_of(CiteEntries[i]) # cite_key_of(CiteEntries[j])

C15_Forms(j) == C3_SixForms(cite_last_of(CiteEntries[j]), cite_year_of(CiteEntries[j]))

\* C15 as stated: when two entries have the same lowercased last name and
\* the same year, all six variants map to the key of the later one, every
\* marker of that name and year resolves to the later key, and the key of
\* the earlier one is the value of no variant.
C15_LastWriterWins ==
    c_pc = "done" =>
        \A i \in DOMAIN CiteEntries, j \in DOMAIN CiteEntries :
            C15_Collide(i, j) =>
                /\ \A f \in C15_Forms(j) :
                        /\ lower(f) \in DOMAIN citation_mapping
                        /\ citation_mapping[lower(f)] = cite_key_of(CiteEntries[j])
                /\ C3_MarkerIsFormOf(CiteEntries[j]) => Resolved(cite_key_of(CiteEntries[j]))
                /\ cite_key_of(CiteEntries[i]) \notin values(citation_mapping)

\* the entries of the file that reach lines 184-195, each with its place in
\* the file, its key, its lowercased last name, its year and its six
\* variants as the table holds them
C15_IndexedOf(es) ==
    { [at |-> k,
       key |-> cite_key_of(es[k]),
       last_name |-> lower(cite_last_of(es[k])),
       year |-> cite_year_of(es[k]),
       forms |-> {lower(g) : g \in C3_SixForms(cite_last_of(es[k]),
                                               cite_year_of(es[k]))}] :
      k \in {k \in DOMAIN es : is_indexed(es[k])} }

\* the last entry of the file that has the variant v
C15_LastHolder(held, v) ==
    CHOOSE e \in held : v \in e.forms /\ \A m \in held : v \in m.forms => m.at <= e.at

\* earlier and later are two entries of one last name and year, in this
\* order in the file, under two different keys
C15_Overwritten(earlier, later) ==
    /\ earlier.at < later.at
    /\ earlier.last_name = later.last_name /\ earlier.year = later.year
    /\ earlier.key # later.key

\* the amended statement on the entries held
C15_PerVariant(held) ==
    /\ \A later \in held :
          (\E earlier \in held : C15_Overwritten(earlier, later)) =>
              \A v \in later.forms :
                  /\ v \in DOMAIN citation_mapping
                  /\ C15_LastHolder(held, v).at >= later.at
                  /\ citation_mapping[v] = C15_LastHolder(held, v).key
                  /\ lower(strip(c_marker)) = v =>
                         /\ Resolved(C15_LastHolder(held, v).key)
                         /\ \A earlier \in held :
                                (C15_Overwritten(earlier, later) /\ Resolved(earlier.key))
                                => C15_LastHolder(held, v).at > later.at
    /\ \A earlier \in held :
          (\E later \in held : C15_Overwritten(earlier, later)) =>
              \A v \in DOMAIN citation_mapping :
                  citation_mapping[v] = earlier.key =>
                      /\ C15_LastHolder(held, v).at # earlier.at
                      /\ C15_LastHolder(held, v).key = earlier.key

\* C15 amended: each of the six variants maps to the key of the last entry
\* of the file that has this variant, the later entry or one after it, and
\* a marker that is the variant resolves to that key; the key of the
\* earlier entry is the value of a variant, and the result of such a
\* marker, only where an entry other than the earlier one, under the same
\* key, is the last to have the variant.
C15_LastWriterWinsPerVariant ==
    c_pc = "done" => C15_PerVariant(C15_IndexedOf(CiteEntries))

\* Smith, John under smith2020paper, then Bob SMITH under s2: the marker
\* resolves to s2
C15_Witness ==
    /\ c_pc = "done"
    /\ Len(CiteEntries) = 3 /\ C15_Collide(2, 3)
    /\ cite_key_of(CiteEntries[2]) = "smith2020paper" /\ cite_key_of(CiteEntries[3]) = "s2"
    /\ c_marker = "(Smith, 2020)"
    /\ Resolved("s2")
    /\ "smith2020paper" \notin values(citation_mapping)

----------------------------------------------------------------------------
(* Claims on json-to-qmd without a bibliography (specification SpecCli).   *)

\* the run is json-to-qmd on an input file that exists
C11_IsQmdRun == args.command = "json-to-qmd" /\ path_exists(fs0, args.json_file)

\* the run has ended and its bibliography check (cli.py line 23) found no
\* file
C11_FoundNoBib == cli_pc = "exit" /\ C11_IsQmdRun /\ cli_bib_file = ""

C11_QmdPath == norm_path(splitext_root(args.json_file) \o ".qmd")
C11_Interactive == stdin_isatty /\ ~args.no_bib

\* the output file is there, a complete document: one without a
\* bibliography, or one with the bibliography that was saved during the run
C11_LastLine == "\n**Note:** Bibliography file not found. Citations may not render correctly.\n"
C11_RefsBlock == "\n## References\n\n::: {#refs}\n:::\n"
C11_OutputWritten ==
    /\ C11_QmdPath \in DOMAIN fs
    /\ \/ endswith(fs[C11_QmdPath], C11_LastLine)
       \/ /\ path_exists(fs0, expected_bib_file)
          /\ endswith(fs[C11_QmdPath], C11_RefsBlock)

\* C11 as stated: when json-to-qmd finds no bibliography file it writes the
\* .qmd output and returns 0, except that an interactive run without
\* --no-bib whose answer is anything other than "y" returns non-zero and
\* writes no output file.
C11_MissingBibliography ==
    C11_FoundNoBib =>
        IF C11_Interactive /\ stdin_line # "y"
        THEN cli_ret # 0 /\ C11_QmdPath \notin DOMAIN fs
        ELSE cli_ret = 0 /\ C11_OutputWritten

\* the user declines at the prompt: the answer, lowercased, is not "y"
C11_Declined == C11_Interactive /\ stdin_line \notin {"y", "Y"}

\* the conversion raises nothing on the input: the text parses to an object
\* whose sections, when it has any, are a list of objects, the text of each,
\* when it has one, being a str or the number 0
C11_Document == json_load(read_text(fs0, args.json_file))
C11_SectionConverts(section) ==
    /\ section.type = "dict"
    /\ "text" \in DOMAIN section.value =>
           \/ section.value.text.type = "str"
           \/ section.value.text.type = "int" /\ section.value.text.value = 0
C11_InputConverts ==
    /\ ~json_load_raises(read_text(fs0, args.json_file))
    /\ C11_Document.type = "dict"
    /\ "sections" \in DOMAIN C11_Document.value =>
           /\ C11_Document.value.sections.type = "list"
           /\ \A i \in DOMAIN C11_Document.value.sections.value :
                  C11_SectionConverts(C11_Document.value.sections.value[i])

\* the write of the output file does not fail
C11_Writable == fault.path # C11_QmdPath

\* C11 amended: when json-to-qmd finds no bibliography file, an interactive
\* run without --no-bib whose answer, lowercased, is not "y" returns
\* non-zero and writes no file at all.  In every other case the conversion
\* is attempted: it writes the .qmd output and returns 0 unless it raises,
\* and when it raises (the input does not parse, is no object, has sections
\* that are no list of objects or a text that is a non-zero number, or the
\* output file cannot be written) the command prints the error, returns 1
\* and leaves no complete output file, and no output file at all when it is
\* the input that made it raise.
C11_MissingBibliographyOutcomes ==
    C11_FoundNoBib =>
        IF C11_Declined
        THEN cli_ret # 0 /\ fs = fs0
        ELSE IF C11_InputConverts /\ C11_Writable
        THEN cli_ret = 0 /\ C11_OutputWritten
        ELSE /\ cli_ret = 1
             /\ stdout # << >>
             /\ SubSeq(stdout[Len(stdout)], 1, 23) = "Error converting file: "
             /\ ~C11_OutputWritten
             /\ ~C11_InputConverts => C11_QmdPath \notin DOMAIN fs

\* an interactive run without a bibliography that the answer Y lets proceed
C11_Witness ==
    /\ C11_FoundNoBib
    /\ C11_Interactive /\ stdin_line = "Y"
    /\ C11_InputConverts /\ C11_Writable
    /\ ~path_exists(fs0, expected_bib_file)
    /\ cli_ret = 0 /\ C11_OutputWritten

----------------------------------------------------------------------------
(* Claims on the files regenerate-bib writes (specification SpecCli).      *)

\* the run is regenerate-bib on a bibliography file that exists
C16_IsRegenerateRun == args.command = "regenerate-bib" /\ path_exists(fs0, args.bib_file)

C16_Backup == args.bib_file \o ".backup"
C16_NewFile == SubSeq(args.bib_file, 1, Len(args.bib_file) - 4) \o ".new.bib"
C16_MappingFile == SubSeq(args.bib_file, 1, Len(args.bib_file) - 4) \o "_key_mapping.txt"

\* the file p holds, completely, what the bibliography file held before the run
C16_HoldsOriginal(p) == p \in DOMAIN fs /\ fs[p] = fs0[args.bib_file]

\* C16: with --inplace, at every point of the run, a failure at any write
\* included, the bibliography file or its backup holds the complete
\* pre-run content (the backup is completely written before the
\* bibliography file is opened for writing); without --inplace the
\* bibliography file is never written, no backup is made, and the result
\* goes to the .new.bib file.
C16_OriginalPreserved ==
    C16_IsRegenerateRun =>
        IF args.inplace
        THEN C16_HoldsOriginal(args.bib_file) \/ C16_HoldsOriginal(C16_Backup)
        ELSE /\ C16_HoldsOriginal(args.bib_file)
             /\ \A p \in DOMAIN fs \ {C16_NewFile, C16_MappingFile} :
                    p \in DOMAIN fs0 /\ fs[p] = fs0[p]

----------------------------------------------------------------------------
(* C19: one key per citation string in one document.                       *)

\* the key inside the inline reference token of the returned text
C19_InlineKey == SubSeq(c_out, Len(CiteBefore) + 3, Len(c_out) - Len(CiteAfter) - 1)

\* the row of the table, for the one citation of the document, with this key
C19_SummaryShows(key) ==
    c_summary = build_bib_entries_summary(<< >>, NoField)
                \o "\n## References Summary\n\n"
                \o "The following sources are cited in this report and detailed in the accompanying "
                \o Grave \o ".bib" \o Grave \o " file:\n\n"
                \o "| Citation | Title | Year | Venue |\n"
                \o "|----------|-------|------|-------|\n"
                \o "| " \o Grave \o "@" \o key \o Grave \o " | "
                \o CitedPaper.title \o " | " \o CitedPaper.year \o " | " \o CitedPaper.venue \o " |\n"

\* C19: for every citation string s and variant table, the key the
\* References Summary table shows for the citation whose id is s equals the
\* key inside the inline reference token produced for the marker whose
\* display text is s.
C19_SameKeyEverywhere ==
    (c_pc = "end" /\ c_marker # "") => C19_SummaryShows(C19_InlineKey)

====
